---- MODULE Spec2Model ----
(***************************************************************************)
(* Verification model of the ai_news pipeline: the scheduler's state file  *)
(* (TaskScheduler.save_state / load_state), the Impact Analyzer's          *)
(* rate-limited asynchronous batch (RateLimiter, AIAnalyzer), the          *)
(* scheduler's jobs, monitor loop and auto-recovery (TaskScheduler), and   *)
(* the event history (record_event).                                       *)
(*                                                                         *)
(* Each subsystem has its own specification over its own group of          *)
(* variables; the other groups stay parked at their idle values.           *)
(***************************************************************************)
EXTENDS Integers, Sequences, FiniteSets, TLC

VARIABLES
    \* ---- state file on disk and the process that writes it (scheduler.py 277-352)
    file_main,      \* content of data/scheduler_state.json
    file_backup,    \* content of data/scheduler_state.json.backup
    file_tmp,       \* content of data/scheduler_state.json.tmp
    save_pc,        \* position of the process inside save_state, or "down"/"loaded"
    mem_gen,        \* generation of the in-memory SchedulerState (0 = defaults)
    gen_count,      \* number of generations created so far
    committed,      \* ghost: last generation whose save_state ran to its end
    writing,        \* ghost: generation the interrupted save_state was writing
    crashed,        \* ghost: the process was killed since the last load
    \* ---- Impact Analyzer batch (ai/ai_analyzer.py 46-74, 494-696)
    r_xs,           \* news_list given to enhanced_batch_analyze
    r_client,       \* an API key is configured (self.client / self.async_client set)
    r_phase,        \* "call", "async" or "returned"
    r_pc,           \* per task of async_batch_analyze: its position
    r_now,          \* time.time(), in seconds
    r_calls,        \* RateLimiter.calls: the queue of recorded call times
    r_lock,         \* RateLimiter.lock: 0 when free, else the task holding it
    r_stamp,        \* per task: current_time read at the start of acquire()
    r_wake,         \* per task: when its asyncio.sleep(wait_time) ends
    r_sem,          \* free permits of self.semaphore
    r_max_calls,    \* self.rate_limiter.max_calls (rate_limit_per_minute)
    r_batch_idx,    \* batch_idx of the sub-batch being gathered (0-based)
    r_task_result,  \* per task: what the coroutine returned or raised
    r_results,      \* the results list / the value returned
    r_dispatched,   \* ghost: the times at which LLM requests were sent
    r_done_order,   \* ghost: tasks of the sub-batch in the order they completed
    r_outcome,      \* ghost: per task, how its request ended
    \* ---- TaskScheduler (scheduler.py)
    s_running,      \* self.is_running
    s_sched_up,     \* self.scheduler.running
    s_jobs,         \* ids of the jobs registered in self.scheduler
    s_opts,         \* ghost: the options start() was first called with
    s_started,      \* start() has succeeded once
    s_inst,         \* jobs with an invocation running in the executor
    s_direct,       \* jobs with a run_job_once invocation running
    s_runs,         \* ghost: number of job bodies started
    s_stats,        \* self.stats: total, successful and failed executions
    s_history,      \* self.execution_history
    s_health,       \* self.health_status['overall']
    s_components,   \* initialize_components has set the component instances
    s_now,          \* datetime.now(), in seconds
    s_file,         \* the state file written by save_state
    s_mon,          \* the monitor thread: "off", "ready", "sleeping" or "stopping"
    s_restarts,     \* ghost: the times of the automatic restarts
    s_disabled,     \* ghost: an auto_recovery_disabled event has been recorded
    s_jobs_before,  \* ghost: the jobs registered when the last restart began
    s_error_count,  \* self.error_count
    s_kills,        \* ghost: number of times the process was killed
    s_written,      \* ghost: the in-memory state at the last save_state call
    s_failed,       \* ghost: the jobs whose body has raised in this process
    s_sig,          \* where the main thread is: run_forever's loop, the signal handler, ...
    s_signal,       \* ghost: _signal_handler has run in this process
    \* ---- SchedulerManager.record_event (scheduler_manager.py)
    h_history,      \* self.execution_history
    h_count,        \* ghost: number of events appended so far
    h_new,          \* ghost: number of events appended in this run
    h_pc,           \* per thread, its position in record_event
    h_slice,        \* per thread, the slice it has computed and not yet assigned
    \* ---- news store (utils/database.py)
    d_rows,         \* the rows of the news_items table
    d_objs,         \* the NewsItem objects alive in the process
    d_now,          \* the wall clock, in seconds
    d_seed,         \* the hash seed of the running process
    d_saves,        \* ghost: number of save_news_items_batch calls
    d_last,         \* ghost: the last call: its count, the rows before it
    \* ---- collection cycles of the enhanced strategy (scheduler.py)
    c_fresh,        \* importance scores of the items the collector will return, in order
    c_db,           \* ids of the items saved by save_news_items_batch
    c_emails,       \* the emails sent: each the ids of the items of its report, in order
    c_log,          \* the job events recorded by _job_executed_listener
    c_last,         \* ghost: the last tick (job, time, items met, cycle run, collector ok)
    \* ---- the pipeline jobs on the news store (scheduler.py, news_collector.py)
    p_feed,         \* the entries the RSS feed serves: [title, time]
    p_rows,         \* the rows of news_items: [title, time, score]
    p_analysis,     \* titles with a row in analysis_results
    p_deep,         \* titles of the items passed to DeepAnalyzer.analyze_news_deep
    p_sent,         \* the emails sent: [job, items]
    p_mode,         \* the jobs the scheduler was started with, "stopped" when it is down
    p_now,          \* the date, in days
    p_last,         \* ghost: the last job run, what it collected and the store before it
    \* ---- the Deep Analyzer (deep_analyzer.py)
    g_item,         \* importance_score of the item of the last analyze_news_deep call
    g_calls,        \* the calls that call made, in order: [kind, query]
    g_result,       \* the DeepAnalysisResult it returned
    g_batch,        \* the scores of the news_list passed to batch_analyze_deep
    g_pc,           \* per item of the batch: "out", "queued", "running", "done"
    g_results,      \* the results list of the batch, in the order of completion
    g_returned,     \* the list batch_analyze_deep returned, and whether it has returned
    \* ---- one analyze_news call of the Impact Analyzer (ai/ai_analyzer.py)
    l_pc,           \* "idle", "main", "fallback", "done"
    l_requests,     \* the HTTP requests sent, in order: [model, status]
    l_configured,   \* whether the configuration names a fallback_model
    l_result,       \* "none", "analysis" or "error_fallback"
    \* ---- the score columns of the store (database.py, the analyzers' parsers)
    w_importance,   \* the importance_score values in news_items
    w_impact,       \* the impact_score values in analysis_results
    w_last,         \* ghost: the last write: its path, the value given, the value stored
    \* ---- check_health on its own (scheduler.py 414-466)
    k_stats,        \* self.stats: total_executions, successful_executions, failed_executions
    k_components,   \* components_status: one flag per component
    k_checks,       \* the number of health checks made
    k_events,       \* the number of health_check events recorded
    k_health,       \* self.health_status: overall, components, failure_rate, stats
    \* ---- construction of the analyzers (_setup_client, _init_client)
    a_key,          \* per analyzer: whether an API key was configured when it was built
    a_state,        \* per analyzer: "none", "client", "mock" (client = None) or "raised"
    a_results,      \* per analyzer: the results its calls have returned since it was built
    \* ---- save_state called by two threads while a job completes (scheduler.py 256-322)
    x_main,         \* data/scheduler_state.json: absent, or the counters written in it
    x_backup,       \* data/scheduler_state.json.backup
    x_tmp,          \* data/scheduler_state.json.tmp
    x_pc,           \* per thread: its position inside save_state
    x_stats,        \* self.stats: the counters
    x_lock,         \* self._lock: "free" or the thread that holds it
    x_calls,        \* the number of save_state calls begun
    \* ---- start(), stop() and the life of the monitor thread (scheduler.py 374-412, 1448-1579)
    t_running,      \* self.is_running
    t_sched_up,     \* self.scheduler.running
    t_jobs,         \* the ids of the jobs registered in self.scheduler
    t_ret,          \* what the last start() returned: "none" before, and after a stop()
    t_monitoring,   \* enable_monitoring of the last start() that reached scheduler.start()
    t_looping,      \* the number of threads inside the while loop of _monitor_loop
    t_exiting,      \* the threads that have left the loop and are still alive
    t_calls,        \* the number of start() and stop() calls made
    \* ---- two jobs running collect_all_news at the same time (news_collector.py 75-131)
    n_rows,         \* the rows of the news_items table
    n_feed,         \* the entries the feed publishes
    n_now,          \* the wall clock, in seconds
    n_pc,           \* per job: "idle", or "probed" between _deduplicate_news and the save
    n_batch,        \* per job: filtered_news, the items that passed the probe
    n_runs          \* the number of collect_all_news calls begun

saveVars == <<file_main, file_backup, file_tmp, save_pc, mem_gen, gen_count,
              committed, writing, crashed>>

rateVars == <<r_xs, r_client, r_phase, r_pc, r_now, r_calls, r_lock, r_stamp, r_wake,
              r_sem, r_max_calls, r_batch_idx, r_task_result, r_results, r_dispatched,
              r_done_order, r_outcome>>

schedVars == <<s_running, s_sched_up, s_jobs, s_opts, s_started, s_inst, s_direct,
               s_runs, s_stats, s_history, s_health, s_components, s_now, s_file,
               s_mon, s_restarts, s_disabled, s_jobs_before, s_error_count, s_kills,
               s_written, s_failed, s_sig, s_signal>>

histVars == <<h_history, h_count, h_new, h_pc, h_slice>>

storeVars == <<d_rows, d_objs, d_now, d_seed, d_saves, d_last>>

cycleVars == <<c_fresh, c_db, c_emails, c_log, c_last>>

pipeVars == <<p_feed, p_rows, p_analysis, p_deep, p_sent, p_mode, p_now, p_last>>

deepVars == <<g_item, g_calls, g_result, g_batch, g_pc, g_results, g_returned>>

llmVars == <<l_pc, l_requests, l_configured, l_result>>

writeVars == <<w_importance, w_impact, w_last>>

healthVars == <<k_stats, k_components, k_checks, k_events, k_health>>

ctorVars == <<a_key, a_state, a_results>>

csaveVars == <<x_main, x_backup, x_tmp, x_pc, x_stats, x_lock, x_calls>>

bootVars == <<t_running, t_sched_up, t_jobs, t_ret, t_monitoring, t_looping, t_exiting, t_calls>>

ingestVars == <<n_rows, n_feed, n_now, n_pc, n_batch, n_runs>>

vars == <<saveVars, rateVars, schedVars, histVars, storeVars, cycleVars, pipeVars, deepVars, llmVars, writeVars, healthVars, ctorVars, csaveVars, bootVars, ingestVars>>

notSaveVars == <<rateVars, schedVars, histVars, storeVars, cycleVars, pipeVars, deepVars, llmVars, writeVars, healthVars, ctorVars, csaveVars, bootVars, ingestVars>>

notRateVars == <<saveVars, schedVars, histVars, storeVars, cycleVars, pipeVars, deepVars, llmVars, writeVars, healthVars, ctorVars, csaveVars, bootVars, ingestVars>>

notSchedVars == <<saveVars, rateVars, histVars, storeVars, cycleVars, pipeVars, deepVars, llmVars, writeVars, healthVars, ctorVars, csaveVars, bootVars, ingestVars>>

notHistVars == <<saveVars, rateVars, schedVars, storeVars, cycleVars, pipeVars, deepVars, llmVars, writeVars, healthVars, ctorVars, csaveVars, bootVars, ingestVars>>

notStoreVars == <<saveVars, rateVars, schedVars, histVars, cycleVars, pipeVars, deepVars, llmVars, writeVars, healthVars, ctorVars, csaveVars, bootVars, ingestVars>>

notCycleVars == <<saveVars, rateVars, schedVars, histVars, storeVars, pipeVars, deepVars, llmVars, writeVars, healthVars, ctorVars, csaveVars, bootVars, ingestVars>>

notPipeVars == <<saveVars, rateVars, schedVars, histVars, storeVars, cycleVars, deepVars, llmVars, writeVars, healthVars, ctorVars, csaveVars, bootVars, ingestVars>>

notDeepVars == <<saveVars, rateVars, schedVars, histVars, storeVars, cycleVars, pipeVars, llmVars, writeVars, healthVars, ctorVars, csaveVars, bootVars, ingestVars>>

notLlmVars == <<saveVars, rateVars, schedVars, histVars, storeVars, cycleVars, pipeVars, deepVars, writeVars, healthVars, ctorVars, csaveVars, bootVars, ingestVars>>

notWriteVars == <<saveVars, rateVars, schedVars, histVars, storeVars, cycleVars, pipeVars, deepVars, llmVars, healthVars, ctorVars, csaveVars, bootVars, ingestVars>>

notHealthVars == <<saveVars, rateVars, schedVars, histVars, storeVars, cycleVars, pipeVars, deepVars, llmVars, writeVars, ctorVars, csaveVars, bootVars, ingestVars>>

notCtorVars == <<saveVars, rateVars, schedVars, histVars, storeVars, cycleVars, pipeVars, deepVars, llmVars, writeVars, healthVars, csaveVars, bootVars, ingestVars>>

notCsaveVars == <<saveVars, rateVars, schedVars, histVars, storeVars, cycleVars, pipeVars, deepVars, llmVars, writeVars, healthVars, ctorVars, bootVars, ingestVars>>

notBootVars == <<saveVars, rateVars, schedVars, histVars, storeVars, cycleVars, pipeVars, deepVars, llmVars, writeVars, healthVars, ctorVars, csaveVars, ingestVars>>

notIngestVars == <<saveVars, rateVars, schedVars, histVars, storeVars, cycleVars, pipeVars, deepVars, llmVars, writeVars, healthVars, ctorVars, csaveVars, bootVars>>

-----------------------------------------------------------------------------
(* Bounds of the state-file model *)

MaxGen == 4

(***************************************************************************)
(* State file.  A file is a record [kind, gen]: absent, a partial          *)
(* (truncated) JSON text of generation gen, or the complete text of gen.   *)
(***************************************************************************)
Absent == [kind |-> "absent", gen |-> 0]

Partial(g) == [kind |-> "partial", gen |-> g]

Complete(g) == [kind |-> "complete", gen |-> g]

Exists(f) == f.kind # "absent"

\* load_state: no main file -> defaults kept; json.load of a truncated file raises and
\* the except branch keeps the defaults; otherwise the fields of the file are restored.
\* The .backup file is never opened.
LoadState(main, backup) ==
    IF ~Exists(main) THEN 0
    ELSE IF main.kind = "partial" THEN 0
    ELSE main.gen

SaveIdle ==
    /\ file_main = Absent
    /\ file_backup = Absent
    /\ file_tmp = Absent
    /\ save_pc = "idle"
    /\ mem_gen = 0
    /\ gen_count = 0
    /\ committed = 0
    /\ writing = 0
    /\ crashed = FALSE

\* record_event / a stats update: the in-memory state becomes a new generation.
Mutate ==
    /\ save_pc = "idle"
    /\ gen_count < MaxGen
    /\ gen_count' = gen_count + 1
    /\ mem_gen' = gen_count + 1
    /\ UNCHANGED <<file_main, file_backup, file_tmp, save_pc, committed, writing, crashed>>
    /\ UNCHANGED notSaveVars

\* save_state, line 300: open(temp_file, 'w') creates or truncates the temp file.
SaveOpenTmp ==
    /\ save_pc = "idle"
    /\ mem_gen # 0
    /\ file_tmp' = Partial(mem_gen)
    /\ writing' = mem_gen
    /\ save_pc' = "tmp_open"
    /\ UNCHANGED <<file_main, file_backup, mem_gen, gen_count, committed, crashed>>
    /\ UNCHANGED notSaveVars

\* save_state, line 301: json.dump finished and the with block closed the temp file.
SaveWriteTmp ==
    /\ save_pc = "tmp_open"
    /\ file_tmp' = Complete(writing)
    /\ save_pc' = "tmp_written"
    /\ UNCHANGED <<file_main, file_backup, mem_gen, gen_count, committed, writing, crashed>>
    /\ UNCHANGED notSaveVars

\* save_state, lines 304-307: if the main file exists, an existing backup is removed.
SaveRemoveBackup ==
    /\ save_pc = "tmp_written"
    /\ IF Exists(file_main)
          THEN /\ file_backup' = Absent
               /\ save_pc' = "backup_removed"
          ELSE /\ file_backup' = file_backup
               /\ save_pc' = "main_moved"
    /\ UNCHANGED <<file_main, file_tmp, mem_gen, gen_count, committed, writing, crashed>>
    /\ UNCHANGED notSaveVars

\* save_state, line 308: os.rename(state_file, backup_file).
SaveMoveMain ==
    /\ save_pc = "backup_removed"
    /\ file_backup' = file_main
    /\ file_main' = Absent
    /\ save_pc' = "main_moved"
    /\ UNCHANGED <<file_tmp, mem_gen, gen_count, committed, writing, crashed>>
    /\ UNCHANGED notSaveVars

\* save_state, line 310: os.rename(temp_file, state_file); the save is complete.
SaveMoveTmp ==
    /\ save_pc = "main_moved"
    /\ file_main' = file_tmp
    /\ file_tmp' = Absent
    /\ committed' = writing
    /\ save_pc' = "idle"
    /\ UNCHANGED <<file_backup, mem_gen, gen_count, writing, crashed>>
    /\ UNCHANGED notSaveVars

\* save_state, lines 314-322: any step raising (disk full, permission) lands in the
\* except branch, which removes the temp file and returns.
SaveException ==
    /\ save_pc \in {"tmp_open", "tmp_written", "backup_removed", "main_moved"}
    /\ file_tmp' = Absent
    /\ save_pc' = "idle"
    /\ UNCHANGED <<file_main, file_backup, mem_gen, gen_count, committed, writing, crashed>>
    /\ UNCHANGED notSaveVars

\* The process is killed at any step; memory is lost, the files stay as they are.
Crash ==
    /\ save_pc \notin {"down"}
    /\ ~crashed
    /\ save_pc' = "down"
    /\ crashed' = TRUE
    /\ writing' = IF save_pc \in {"idle", "loaded"} THEN committed ELSE writing
    /\ mem_gen' = 0
    /\ UNCHANGED <<file_main, file_backup, file_tmp, gen_count, committed>>
    /\ UNCHANGED notSaveVars

\* The next process starts: start() calls load_state() (line 1476).
Recover ==
    /\ save_pc = "down"
    /\ mem_gen' = LoadState(file_main, file_backup)
    /\ save_pc' = "loaded"
    /\ UNCHANGED <<file_main, file_backup, file_tmp, gen_count, committed, writing, crashed>>
    /\ UNCHANGED notSaveVars

\* The restarted process goes on running.
Resume ==
    /\ save_pc = "loaded"
    /\ save_pc' = "idle"
    /\ crashed' = FALSE
    /\ UNCHANGED <<file_main, file_backup, file_tmp, mem_gen, gen_count, committed, writing>>
    /\ UNCHANGED notSaveVars

SaveNext ==
    \/ Mutate
    \/ SaveOpenTmp
    \/ SaveWriteTmp
    \/ SaveRemoveBackup
    \/ SaveMoveMain
    \/ SaveMoveTmp
    \/ SaveException
    \/ Crash
    \/ Recover
    \/ Resume

-----------------------------------------------------------------------------
(***************************************************************************)
(* Impact Analyzer batch: enhanced_batch_analyze, async_batch_analyze,     *)
(* _async_analyze_news and RateLimiter.acquire.  The event loop of         *)
(* asyncio.run is one thread: a coroutine runs until its next await.       *)
(***************************************************************************)

(* Bounds: the BatchAnalysisConfig used, the batch sizes and the clock *)
MaxItems == 4

MaxConcurrent == 2

RateLimit == 1

BatchSize == 3

TickSeconds == 30

MaxTime == 90

(* RateLimiter.acquire hard-codes the 60-second window (lines 62 and 70) *)
WindowSeconds == 60

\* a NewsItem as the batch sees it: its id, and whether title is None (title[:30]
\* raises); two well-formed items and one without a title
NewsItems ==
    {[id |-> "a", bad |-> FALSE], [id |-> "b", bad |-> FALSE], [id |-> "c", bad |-> TRUE]}

\* impact_score values the LLM may put in its JSON reply
RawScores == {120}

\* scores _mock_analysis can compute from the keywords of an item
MockScores == {20, 50, 80}

Tasks == 1..MaxItems

RECURSIVE SeqsUpTo(_, _)
SeqsUpTo(S, n) ==
    IF n = 0 THEN {<<>>}
    ELSE LET shorter == SeqsUpTo(S, n - 1)
         IN  shorter \cup {Append(s, x) : s \in {t \in shorter : Len(t) = n - 1}, x \in S}

Max(a, b) == IF a >= b THEN a ELSE b

Min(a, b) == IF a <= b THEN a ELSE b

\* _parse_analysis_response, line 725: max(0, min(100, impact_score))
ClampScore(x) == Max(0, Min(100, x))

\* _parse_analysis_response: a JSON reply gives the clamped score, a reply that is not
\* JSON goes to _create_fallback_result (score 0, "AI解析失败...").
ParseAnalysisResponse(news_id, reply) ==
    IF reply.kind = "nojson"
    THEN [news_id |-> news_id, impact_score |-> 0, summary |-> "parse_failed"]
    ELSE [news_id |-> news_id, impact_score |-> ClampScore(reply.score), summary |-> "llm"]

\* Mutation of ErrorFallbackAnalysis: the placeholder carries the neutral score of
\* _mock_analysis instead of 0.
ErrorFallbackNeutral(item) ==
    [news_id |-> item.id, impact_score |-> 50, summary |-> "analysis_error"]

\* _error_fallback_analysis, lines 800-815: impact_score 0 and the error summary
ErrorFallbackAnalysis(item) ==
    [news_id |-> item.id, impact_score |-> 0, summary |-> "analysis_error"]

\* _mock_analysis, lines 756-798
MockAnalysis(item, score) ==
    [news_id |-> item.id, impact_score |-> score, summary |-> "mock"]

NoResult == [news_id |-> "", impact_score |-> 0, summary |-> "none"]

\* what a finished coroutine hands to gather: a value, or the exception it raised
Returned(r) == [raised |-> FALSE, value |-> r]

Raised == [raised |-> TRUE, value |-> NoResult]

Outcome(k, x) == [kind |-> k, score |-> x]

\* how one request ends: a JSON reply carrying a score, a reply that is not JSON, or
\* the request raising / timing out
Outcomes ==
    {Outcome("reply", x) : x \in RawScores}
        \cup {Outcome("nojson", 0), Outcome("error", 0), Outcome("timeout", 0)}

Failed(out) == out.kind \in {"error", "timeout", "raised", "failed"}

\* analyze_news, lines 208-246, for one item: mock without a client, the parsed reply,
\* or _error_fallback_analysis when both the main and the fallback call raise
\* (a title of None raises inside the try as well).
AnalyzeNews(item, client, outcome, mock) ==
    IF ~client THEN MockAnalysis(item, mock)
    ELSE IF item.bad \/ Failed(outcome) THEN ErrorFallbackAnalysis(item)
    ELSE ParseAnalysisResponse(item.id, outcome)

\* RateLimiter.acquire, lines 60-65: drop the recorded calls older than the window
RECURSIVE PurgeExpired(_, _)
PurgeExpired(calls, t) ==
    IF calls # <<>> /\ t - Head(calls) > WindowSeconds
    THEN PurgeExpired(Tail(calls), t)
    ELSE calls

\* RateLimiter.acquire, lines 68-72: the sleep before the call is recorded (0: none)
WaitTime(calls, t, max_calls) ==
    IF Len(calls) >= max_calls
    THEN Max(0, WindowSeconds - (t - Head(calls)))
    ELSE 0

\* the tasks of the sub-batch gathered now: tasks[batch_idx : batch_idx + batch_size]
SubBatch(idx, n) == {i \in Tasks : idx < i /\ i <= Min(idx + BatchSize, n)}

\* Mutation of BatchResults: the results are collected in the order in which the
\* requests completed (as asyncio.as_completed would give them).
RECURSIVE BatchResultsAsCompleted(_, _, _, _, _)
BatchResultsAsCompleted(xs, idx, n, tr, order) ==
    IF order = <<>> THEN <<>>
    ELSE LET i == Head(order)
             rest == BatchResultsAsCompleted(xs, idx, n, tr, Tail(order))
         IN  IF i \in SubBatch(idx, n)
             THEN <<IF tr[i].raised THEN ErrorFallbackAnalysis(xs[i]) ELSE tr[i].value>>
                  \o rest
             ELSE rest

\* async_batch_analyze, lines 614-634: gather returns in task order; a raised
\* exception is replaced by the error fallback of news_list[batch_idx + j].
BatchResults(xs, idx, n, tr, order) ==
    [j \in 1..(Min(idx + BatchSize, n) - idx) |->
        IF tr[idx + j].raised THEN ErrorFallbackAnalysis(xs[idx + j])
        ELSE tr[idx + j].value]

RateIdle ==
    /\ r_xs = <<>>
    /\ r_client = FALSE
    /\ r_phase = "call"
    /\ r_pc = [i \in Tasks |-> "none"]
    /\ r_now = 0
    /\ r_calls = <<>>
    /\ r_lock = 0
    /\ r_stamp = [i \in Tasks |-> 0]
    /\ r_wake = [i \in Tasks |-> 0]
    /\ r_sem = MaxConcurrent
    /\ r_max_calls = RateLimit
    /\ r_batch_idx = 0
    /\ r_task_result = [i \in Tasks |-> Returned(NoResult)]
    /\ r_results = <<>>
    /\ r_dispatched = <<>>
    /\ r_done_order = <<>>
    /\ r_outcome = [i \in Tasks |-> Outcome("none", 0)]

\* AIAnalyzer() constructed, enhanced_batch_analyze(news_list) about to be called
RateInit ==
    /\ r_xs \in SeqsUpTo(NewsItems, MaxItems)
    /\ r_client \in BOOLEAN
    /\ r_phase = "call"
    /\ r_pc = [i \in Tasks |-> "none"]
    /\ r_now = 0
    /\ r_calls = <<>>
    /\ r_lock = 0
    /\ r_stamp = [i \in Tasks |-> 0]
    /\ r_wake = [i \in Tasks |-> 0]
    /\ r_sem = MaxConcurrent
    /\ r_batch_idx = 0
    /\ r_task_result = [i \in Tasks |-> Returned(NoResult)]
    /\ r_results = <<>>
    /\ r_dispatched = <<>>
    /\ r_done_order = <<>>
    /\ r_outcome = [i \in Tasks |-> Outcome("none", 0)]

\* Mutation of SemaphoreLocked: the semaphore never makes a task wait.
SemaphoreNeverLocked(value) == FALSE

\* asyncio.Semaphore.locked(), tested by `async with self.semaphore` (line 508): no
\* permit is free
SemaphoreLocked(value) == value = 0

\* the event-loop thread is stuck in `with self.lock` (threading.Lock) of a task
LoopBlocked == \E i \in Tasks : r_pc[i] = "lock_blocked"

\* enhanced_batch_analyze, lines 664-665 and 694-696: nothing to do, or at most two
\* items, analysed one by one with analyze_news
SerialAnalyze ==
    /\ r_phase = "call"
    /\ Len(r_xs) <= 2
    /\ \E out \in [1..Len(r_xs) -> Outcomes], mock \in [1..Len(r_xs) -> MockScores] :
          r_results' = [i \in 1..Len(r_xs) |->
                           AnalyzeNews(r_xs[i], r_client, out[i], mock[i])]
    /\ r_phase' = "returned"
    /\ UNCHANGED <<r_xs, r_client, r_pc, r_now, r_calls, r_lock, r_stamp, r_wake, r_sem,
                   r_batch_idx, r_task_result, r_dispatched, r_done_order, r_outcome>>
    /\ UNCHANGED r_max_calls
    /\ UNCHANGED notRateVars

\* enhanced_batch_analyze, lines 683-685: more than two items and no async client
MockAll ==
    /\ r_phase = "call"
    /\ Len(r_xs) > 2
    /\ ~r_client
    /\ \E mock \in [1..Len(r_xs) -> MockScores] :
          r_results' = [i \in 1..Len(r_xs) |-> MockAnalysis(r_xs[i], mock[i])]
    /\ r_phase' = "returned"
    /\ UNCHANGED <<r_xs, r_client, r_pc, r_now, r_calls, r_lock, r_stamp, r_wake, r_sem,
                   r_batch_idx, r_task_result, r_dispatched, r_done_order, r_outcome>>
    /\ UNCHANGED r_max_calls
    /\ UNCHANGED notRateVars

\* enhanced_batch_analyze line 687 and async_batch_analyze lines 597-614: the
\* coroutines are created and the first sub-batch is handed to gather
AsyncBegin ==
    /\ r_phase = "call"
    /\ Len(r_xs) > 2
    /\ r_client
    /\ r_phase' = "async"
    /\ r_batch_idx' = 0
    /\ r_pc' = [i \in Tasks |-> IF i \in SubBatch(0, Len(r_xs)) THEN "start" ELSE "none"]
    /\ UNCHANGED <<r_xs, r_client, r_now, r_calls, r_lock, r_stamp, r_wake, r_sem,
                   r_task_result, r_results, r_dispatched, r_done_order, r_outcome>>
    /\ UNCHANGED r_max_calls
    /\ UNCHANGED notRateVars

\* _async_analyze_news, lines 500-508: the task starts in task order; title[:30] of a
\* title that is None raises before the semaphore (tenacity re-raises after its
\* attempts); otherwise the task queues for the semaphore.
TaskStart(i) ==
    /\ r_phase = "async"
    /\ ~LoopBlocked
    /\ r_pc[i] = "start"
    /\ \A j \in Tasks : j < i => r_pc[j] # "start"
    /\ IF r_xs[i].bad
          THEN /\ r_pc' = [r_pc EXCEPT ![i] = "done"]
               /\ r_task_result' = [r_task_result EXCEPT ![i] = Raised]
               /\ r_outcome' = [r_outcome EXCEPT ![i] = Outcome("raised", 0)]
               /\ r_done_order' = Append(r_done_order, i)
          ELSE /\ r_pc' = [r_pc EXCEPT ![i] = "sem_wait"]
               /\ UNCHANGED <<r_task_result, r_outcome, r_done_order>>
    /\ UNCHANGED <<r_xs, r_client, r_phase, r_now, r_calls, r_lock, r_stamp, r_wake,
                   r_sem, r_batch_idx, r_results, r_dispatched>>
    /\ UNCHANGED r_max_calls
    /\ UNCHANGED notRateVars

\* _async_analyze_news lines 508-524 with RateLimiter.acquire lines 54-74: the task
\* takes a semaphore permit (waiters are served first come, first served) and runs
\* acquire() up to its first suspension:
\*   the lock is held by a task sleeping inside acquire -> the thread blocks in `with`;
\*   the window is full -> asyncio.sleep(wait_time) with the lock held;
\*   otherwise the call is recorded and the request is sent.
SemAcquire(i) ==
    /\ r_phase = "async"
    /\ ~LoopBlocked
    /\ r_pc[i] = "sem_wait"
    /\ \A j \in Tasks : j < i => r_pc[j] \notin {"start", "sem_wait"}
    /\ ~SemaphoreLocked(r_sem)
    /\ r_sem' = r_sem - 1
    /\ LET purged == PurgeExpired(r_calls, r_now)
           wait == WaitTime(purged, r_now, r_max_calls)
       IN  IF r_lock # 0
           THEN /\ r_pc' = [r_pc EXCEPT ![i] = "lock_blocked"]
                /\ UNCHANGED <<r_calls, r_lock, r_stamp, r_wake, r_dispatched>>
           ELSE IF wait > 0
           THEN /\ r_pc' = [r_pc EXCEPT ![i] = "rl_sleep"]
                /\ r_calls' = purged
                /\ r_lock' = i
                /\ r_stamp' = [r_stamp EXCEPT ![i] = r_now]
                /\ r_wake' = [r_wake EXCEPT ![i] = r_now + wait]
                /\ UNCHANGED r_dispatched
           ELSE /\ r_pc' = [r_pc EXCEPT ![i] = "in_flight"]
                /\ r_calls' = Append(purged, r_now)
                /\ r_dispatched' = Append(r_dispatched, r_now)
                /\ UNCHANGED <<r_lock, r_stamp, r_wake>>
    /\ UNCHANGED <<r_xs, r_client, r_phase, r_now, r_batch_idx, r_task_result,
                   r_results, r_done_order, r_outcome>>
    /\ UNCHANGED r_max_calls
    /\ UNCHANGED notRateVars

\* RateLimiter.acquire lines 72-74 and _async_analyze_news line 524: the sleep is over;
\* current_time as read before the sleep is recorded, the lock is released and the
\* request is sent.
WakeUp(i) ==
    /\ r_phase = "async"
    /\ ~LoopBlocked
    /\ r_pc[i] = "rl_sleep"
    /\ r_now >= r_wake[i]
    /\ r_calls' = Append(r_calls, r_stamp[i])
    /\ r_lock' = 0
    /\ r_dispatched' = Append(r_dispatched, r_now)
    /\ r_pc' = [r_pc EXCEPT ![i] = "in_flight"]
    /\ UNCHANGED <<r_xs, r_client, r_phase, r_now, r_stamp, r_wake, r_sem, r_batch_idx,
                   r_task_result, r_results, r_done_order, r_outcome>>
    /\ UNCHANGED r_max_calls
    /\ UNCHANGED notRateVars

\* _async_analyze_news lines 538-575: the request ends with a reply, an exception or
\* a timeout; the coroutine returns the parsed result or the error fallback and the
\* `async with` gives the permit back.
RequestEnds(i) ==
    /\ r_phase = "async"
    /\ ~LoopBlocked
    /\ r_pc[i] = "in_flight"
    /\ \E out \in Outcomes :
          /\ r_outcome' = [r_outcome EXCEPT ![i] =
                IF Failed(out) THEN Outcome("failed", 0) ELSE out]
          /\ r_task_result' = [r_task_result EXCEPT ![i] =
                IF Failed(out)
                THEN Returned(ErrorFallbackAnalysis(r_xs[i]))
                ELSE Returned(ParseAnalysisResponse(r_xs[i].id, out))]
    /\ r_sem' = r_sem + 1
    /\ r_pc' = [r_pc EXCEPT ![i] = "done"]
    /\ r_done_order' = Append(r_done_order, i)
    /\ UNCHANGED <<r_xs, r_client, r_phase, r_now, r_calls, r_lock, r_stamp, r_wake,
                   r_batch_idx, r_results, r_dispatched>>
    /\ UNCHANGED r_max_calls
    /\ UNCHANGED notRateVars

\* async_batch_analyze lines 614-642 and 660: gather returned; the results of the
\* sub-batch are appended, then the next sub-batch is gathered or the list returned.
SubBatchDone ==
    /\ r_phase = "async"
    /\ ~LoopBlocked
    /\ \A i \in SubBatch(r_batch_idx, Len(r_xs)) : r_pc[i] = "done"
    /\ r_results' = r_results \o
          BatchResults(r_xs, r_batch_idx, Len(r_xs), r_task_result, r_done_order)
    /\ r_batch_idx' = r_batch_idx + BatchSize
    /\ IF r_batch_idx + BatchSize < Len(r_xs)
          THEN /\ r_pc' = [i \in Tasks |->
                     IF i \in SubBatch(r_batch_idx + BatchSize, Len(r_xs))
                     THEN "start" ELSE r_pc[i]]
               /\ r_phase' = "async"
               /\ r_done_order' = <<>>
          ELSE /\ r_phase' = "returned"
               /\ r_pc' = r_pc
               /\ r_done_order' = r_done_order
    /\ UNCHANGED <<r_xs, r_client, r_now, r_calls, r_lock, r_stamp, r_wake, r_sem,
                   r_task_result, r_dispatched, r_outcome>>
    /\ UNCHANGED r_max_calls
    /\ UNCHANGED notRateVars

\* a coroutine of the event loop can run now: it is not waiting for a reply, for a
\* permit that is taken, or for the end of its sleep
LoopHasReadyTask ==
    /\ ~LoopBlocked
    /\ \/ \E i \in Tasks : r_pc[i] = "start"
       \/ \E i \in Tasks : r_pc[i] = "sem_wait" /\ ~SemaphoreLocked(r_sem)
       \/ \E i \in Tasks : r_pc[i] = "rl_sleep" /\ r_now >= r_wake[i]
       \/ \A i \in SubBatch(r_batch_idx, Len(r_xs)) : r_pc[i] = "done"

\* wall-clock time passes while the loop waits for replies and timers (a ready
\* coroutine runs at once)
RateTick ==
    /\ r_phase = "async"
    /\ ~LoopHasReadyTask
    /\ r_now < MaxTime
    /\ r_now' = r_now + TickSeconds
    /\ UNCHANGED <<r_xs, r_client, r_phase, r_pc, r_calls, r_lock, r_stamp, r_wake,
                   r_sem, r_batch_idx, r_task_result, r_results, r_dispatched,
                   r_done_order, r_outcome>>
    /\ UNCHANGED r_max_calls
    /\ UNCHANGED notRateVars

RateNext ==
    \/ SerialAnalyze
    \/ MockAll
    \/ AsyncBegin
    \/ \E i \in Tasks : TaskStart(i)
    \/ \E i \in Tasks : SemAcquire(i)
    \/ \E i \in Tasks : WakeUp(i)
    \/ \E i \in Tasks : RequestEnds(i)
    \/ SubBatchDone
    \/ RateTick

-----------------------------------------------------------------------------
(***************************************************************************)
(* TaskScheduler: jobs and their invocations, the job listener, the        *)
(* monitor loop with check_health and check_error_recovery, restart.       *)
(* Time is in seconds.  APScheduler is the hosted library: an executor     *)
(* starts a job only while fewer than max_instances of it run, and         *)
(* shutdown(wait=True) returns when the running jobs have ended, with the  *)
(* job store emptied.                                                      *)
(***************************************************************************)

(* Bounds: job bodies started in one run, and the length of the run *)
MaxRuns == 2

MaxSchedTime == 300

MaxKills == 1

MaxErrors == 1

(* Program constants of scheduler.py *)
max_history_size == 100

SavedHistorySize == 50

monitor_interval == 60

RecoveryLookback == 10

MaxRecentRestarts == 3

HourSeconds == 3600

RestartPause == 2

max_instances == 1

JobIds ==
    {"news_collection", "ai_analysis", "email_report", "ai_analysis_only",
     "full_pipeline", "morning_collection", "trading_hours_collection",
     "evening_collection", "daily_summary", "maintenance"}

\* start(): the keyword arguments and their defaults (lines 1448-1455)
DefaultOptions ==
    [news |-> TRUE, analysis |-> TRUE, email |-> TRUE, full_pipeline |-> FALSE,
     enhanced |-> FALSE, maintenance |-> TRUE, monitoring |-> TRUE]

\* main.py, lines 372-378: the options of start_scheduler
MainOptions ==
    [news |-> FALSE, analysis |-> FALSE, email |-> FALSE, full_pipeline |-> TRUE,
     enhanced |-> FALSE, maintenance |-> TRUE, monitoring |-> TRUE]

\* the enhanced strategy of add_enhanced_strategy_jobs
EnhancedOptions == [DefaultOptions EXCEPT !.enhanced = TRUE]

StartOptions == {DefaultOptions, MainOptions, EnhancedOptions}

NoOptions ==
    [news |-> FALSE, analysis |-> FALSE, email |-> FALSE, full_pipeline |-> FALSE,
     enhanced |-> FALSE, maintenance |-> FALSE, monitoring |-> FALSE]

\* start(), lines 1484-1509: the jobs added for the options given
JobsFor(o) ==
    (IF o.enhanced
        THEN {"morning_collection", "trading_hours_collection", "evening_collection",
              "daily_summary"}
     ELSE IF o.full_pipeline THEN {"full_pipeline"}
     ELSE (IF o.news THEN {"news_collection"} ELSE {})
          \cup (IF o.analysis /\ o.email THEN {"ai_analysis", "email_report"}
                ELSE IF o.analysis THEN {"ai_analysis_only"}
                ELSE {}))
    \cup (IF o.maintenance THEN {"maintenance"} ELSE {})

\* restart(**kwargs), lines 1572-1579: start(**kwargs); check_error_recovery calls
\* self.restart() with no arguments (line 484), so start() runs with its defaults.
RestartOptions(original) == DefaultOptions

Event(type, ts) == [type |-> type, timestamp |-> ts]

LastN(h, n) == IF Len(h) <= n THEN h ELSE SubSeq(h, Len(h) - n + 1, Len(h))

\* record_event, lines 354-370: append, then keep the last max_history_size entries
RecordEvent(h, type, ts) ==
    LET appended == Append(h, Event(type, ts))
    IN  IF Len(appended) > max_history_size
        THEN LastN(appended, max_history_size)
        ELSE appended

NoStats == [total |-> 0, successful |-> 0, failed |-> 0]

NoFile ==
    [exists |-> FALSE, is_running |-> FALSE, history |-> <<>>, stats |-> NoStats,
     health |-> "unknown", error_count |-> 0]

\* the fields of the scheduler that save_state reads, as they are in memory
MemoryState(h, stats, health, errors) ==
    [history |-> h, stats |-> stats, health |-> health, error_count |-> errors]

\* save_state, lines 285-310, run to its end: the last 50 events and the counters
SavedState(running, h, stats, health, errors) ==
    [exists |-> TRUE, is_running |-> running, history |-> LastN(h, SavedHistorySize),
     stats |-> stats, health |-> health, error_count |-> errors]

\* the process has not ended
Alive == s_sig # "exited"

\* Mutation of OverallStatus: a failure rate of exactly one half is critical
OverallStatusInclusive(stats, components_ok) ==
    LET total == Max(stats.total, 1)
    IN  IF 2 * stats.failed >= total THEN "critical"
        ELSE IF 5 * stats.failed > total THEN "warning"
        ELSE IF components_ok THEN "healthy"
        ELSE "degraded"

\* check_health, lines 431-444
OverallStatus(stats, components_ok) ==
    LET total == Max(stats.total, 1)
    IN  IF 2 * stats.failed > total THEN "critical"
        ELSE IF 5 * stats.failed > total THEN "warning"
        ELSE IF components_ok THEN "healthy"
        ELSE "degraded"

\* check_error_recovery, lines 476-480: the restart events among the last 10 entries
\* of the history that are less than one hour old
RecentRestarts(h, now) ==
    LET recent == LastN(h, RecoveryLookback)
    IN  Cardinality({k \in DOMAIN recent :
                        /\ recent[k].type = "scheduler_restarted"
                        /\ recent[k].timestamp > now - HourSeconds})

\* _job_executed_listener, lines 256-265
CountExecution(stats, failed) ==
    [total |-> stats.total + 1,
     successful |-> stats.successful + (IF failed THEN 0 ELSE 1),
     failed |-> stats.failed + (IF failed THEN 1 ELSE 0)]

SchedIdle ==
    /\ s_running = FALSE
    /\ s_sched_up = FALSE
    /\ s_jobs = {}
    /\ s_opts = NoOptions
    /\ s_started = FALSE
    /\ s_inst = {}
    /\ s_direct = {}
    /\ s_runs = 0
    /\ s_stats = NoStats
    /\ s_history = <<>>
    /\ s_health = "unknown"
    /\ s_components = FALSE
    /\ s_now = 0
    /\ s_file = NoFile
    /\ s_mon = "off"
    /\ s_restarts = <<>>
    /\ s_disabled = FALSE
    /\ s_jobs_before = {}
    /\ s_error_count = 0
    /\ s_kills = 0
    /\ s_written = MemoryState(<<>>, NoStats, "unknown", 0)
    /\ s_failed = {}
    /\ s_sig = "loop"
    /\ s_signal = FALSE

\* Mutation of RestoreState: the counters of self.stats are left at their defaults.
RestoreStateWithoutStats(file, mem) ==
    IF file.exists
    THEN MemoryState(file.history, mem.stats, file.health, file.error_count)
    ELSE mem

\* load_state, lines 324-352: without a state file the memory is left as it is;
\* otherwise error_count, execution_history, health_status and the counters of
\* self.stats are taken from the file.
RestoreState(file, mem) ==
    IF file.exists
    THEN MemoryState(file.history, file.stats, file.health, file.error_count)
    ELSE mem

\* start(), lines 1468-1533, called by main: load_state, initialize_components, the
\* jobs, scheduler.start(), the monitor thread, the scheduler_started event.
\* initialize_components may fail (ok = FALSE): start returns False.
Start(opts, ok) ==
    /\ ~s_started
    /\ LET loaded == RestoreState(s_file, MemoryState(s_history, s_stats, s_health,
                                                      s_error_count))
       IN  /\ s_stats' = loaded.stats
           /\ s_health' = loaded.health
           /\ s_error_count' = loaded.error_count
           /\ IF ok
                 THEN /\ s_components' = TRUE
                      /\ s_jobs' = JobsFor(opts)
                      /\ s_sched_up' = TRUE
                      /\ s_running' = TRUE
                      /\ s_started' = TRUE
                      /\ s_opts' = opts
                      /\ s_mon' = IF opts.monitoring THEN "ready" ELSE "off"
                      /\ s_history' = RecordEvent(loaded.history, "scheduler_started",
                                                  s_now)
                 ELSE /\ s_history' = loaded.history
                      /\ UNCHANGED <<s_components, s_jobs, s_sched_up, s_running,
                                     s_started, s_opts, s_mon>>
    /\ UNCHANGED <<s_inst, s_direct, s_runs, s_now, s_file, s_restarts, s_disabled,
                   s_jobs_before, s_kills, s_written, s_failed, s_sig, s_signal>>
    /\ UNCHANGED notSchedVars

\* start(), lines 1535-1540: a step after initialize_components raises (adding a
\* job with a malformed interval of the configuration, for one); the except branch
\* counts the error, records scheduler_start_failed and returns False.
StartRaises(opts) ==
    /\ ~s_started
    /\ s_error_count < MaxErrors
    /\ LET loaded == RestoreState(s_file, MemoryState(s_history, s_stats, s_health,
                                                      s_error_count))
       IN  /\ s_stats' = loaded.stats
           /\ s_health' = loaded.health
           /\ s_error_count' = loaded.error_count + 1
           /\ s_history' = RecordEvent(loaded.history, "scheduler_start_failed", s_now)
    /\ s_components' = TRUE
    /\ UNCHANGED <<s_jobs, s_sched_up, s_running, s_started, s_opts, s_mon, s_inst,
                   s_direct, s_runs, s_now, s_file, s_restarts, s_disabled,
                   s_jobs_before, s_kills, s_written, s_failed, s_sig, s_signal>>
    /\ UNCHANGED notSchedVars

\* The process is killed (SIGKILL, power loss) and a new one is created: the memory
\* is that of TaskScheduler.__init__ (lines 34-91), the state file stays.
Kill ==
    /\ s_started
    /\ Alive
    /\ s_kills < MaxKills
    /\ s_kills' = s_kills + 1
    /\ s_running' = FALSE
    /\ s_sched_up' = FALSE
    /\ s_jobs' = {}
    /\ s_opts' = NoOptions
    /\ s_started' = FALSE
    /\ s_inst' = {}
    /\ s_direct' = {}
    /\ s_stats' = NoStats
    /\ s_history' = <<>>
    /\ s_health' = "unknown"
    /\ s_components' = FALSE
    /\ s_mon' = "off"
    /\ s_error_count' = 0
    /\ s_failed' = {}
    /\ s_sig' = "loop"
    /\ s_signal' = FALSE
    /\ UNCHANGED <<s_runs, s_now, s_file, s_restarts, s_disabled, s_jobs_before,
                   s_written>>
    /\ UNCHANGED notSchedVars

\* A trigger of job j fires: the executor starts the job unless max_instances of it
\* are running already (the run is then skipped).
Fire(j) ==
    /\ Alive
    /\ s_sched_up
    /\ j \in s_jobs
    /\ s_runs < MaxRuns
    /\ (IF j \in s_inst THEN 1 ELSE 0) < max_instances
    /\ s_inst' = s_inst \cup {j}
    /\ s_runs' = s_runs + 1
    /\ UNCHANGED <<s_running, s_sched_up, s_jobs, s_opts, s_started, s_direct, s_stats,
                   s_history, s_health, s_components, s_now, s_file, s_mon, s_restarts,
                   s_disabled, s_jobs_before>>
    /\ UNCHANGED <<s_error_count, s_kills, s_written, s_failed, s_sig, s_signal>>
    /\ UNCHANGED notSchedVars

\* The job body ended and _job_executed_listener ran (lines 256-273): the counters,
\* then the job_executed or job_failed event.
JobEnds(j, failed) ==
    /\ Alive
    /\ j \in s_inst
    /\ s_inst' = s_inst \ {j}
    /\ s_stats' = CountExecution(s_stats, failed)
    /\ s_history' = RecordEvent(s_history,
                                IF failed THEN "job_failed" ELSE "job_executed", s_now)
    /\ s_failed' = IF failed THEN s_failed \cup {j} ELSE s_failed
    /\ UNCHANGED <<s_running, s_sched_up, s_jobs, s_opts, s_started, s_direct, s_runs,
                   s_health, s_components, s_now, s_file, s_mon, s_restarts, s_disabled,
                   s_jobs_before>>
    /\ UNCHANGED <<s_error_count, s_kills, s_written, s_sig, s_signal>>
    /\ UNCHANGED notSchedVars

\* run_job_once, lines 1616-1623: the job is looked up and job.func() is called in
\* the caller's thread.  get_job finds the jobs of a started scheduler (of a stopped
\* one, only the jobs added since the shutdown).
RunJobOnceCalls(j) ==
    /\ Alive
    /\ s_started
    /\ s_sched_up
    /\ j \in s_jobs
    /\ j \notin s_direct
    /\ s_runs < MaxRuns
    /\ s_direct' = s_direct \cup {j}
    /\ s_runs' = s_runs + 1
    /\ UNCHANGED <<s_running, s_sched_up, s_jobs, s_opts, s_started, s_inst, s_stats,
                   s_history, s_health, s_components, s_now, s_file, s_mon, s_restarts,
                   s_disabled, s_jobs_before>>
    /\ UNCHANGED <<s_error_count, s_kills, s_written, s_failed, s_sig, s_signal>>
    /\ UNCHANGED notSchedVars

\* run_job_once, lines 1623-1630: job.func() returned or raised; True or False is
\* returned, no listener is involved.
RunJobOnceReturns(j) ==
    /\ Alive
    /\ j \in s_direct
    /\ s_direct' = s_direct \ {j}
    /\ UNCHANGED <<s_running, s_sched_up, s_jobs, s_opts, s_started, s_inst, s_runs,
                   s_stats, s_history, s_health, s_components, s_now, s_file, s_mon,
                   s_restarts, s_disabled, s_jobs_before>>
    /\ UNCHANGED <<s_error_count, s_kills, s_written, s_failed, s_sig, s_signal>>
    /\ UNCHANGED notSchedVars

\* One pass of _monitor_loop (lines 396-408) up to its sleep: check_health (414-462),
\* check_error_recovery (468-488) and save_state.  When a restart is due, restart()
\* has called stop(), which sets is_running = False and waits in
\* scheduler.shutdown(wait=True) for the running jobs.
MonitorCheck ==
    /\ Alive
    /\ s_mon = "ready"
    /\ IF ~s_running
          THEN /\ s_mon' = "off"
               /\ UNCHANGED <<s_running, s_sched_up, s_history, s_health, s_file,
                              s_disabled, s_jobs_before, s_written>>
          ELSE LET overall == OverallStatus(s_stats, s_components /\ s_running)
                   h1 == IF overall # "healthy"
                         THEN RecordEvent(s_history, "health_check", s_now)
                         ELSE s_history
               IN  /\ s_health' = overall
                   /\ IF overall = "critical"
                         /\ RecentRestarts(h1, s_now) < MaxRecentRestarts
                      THEN /\ s_running' = FALSE
                           /\ s_sched_up' = FALSE
                           /\ s_history' = h1
                           /\ s_jobs_before' = s_jobs
                           /\ s_mon' = "stopping"
                           /\ UNCHANGED <<s_file, s_disabled, s_written>>
                      ELSE LET h2 == IF overall = "critical"
                                     THEN RecordEvent(h1, "auto_recovery_disabled", s_now)
                                     ELSE h1
                           IN  /\ s_history' = h2
                               /\ s_disabled' = (s_disabled \/ overall = "critical")
                               /\ s_file' = SavedState(s_running, h2, s_stats, overall,
                                                       s_error_count)
                               /\ s_written' = MemoryState(h2, s_stats, overall,
                                                           s_error_count)
                               /\ s_mon' = "sleeping"
                               /\ UNCHANGED <<s_running, s_sched_up, s_jobs_before>>
    /\ UNCHANGED <<s_jobs, s_opts, s_started, s_inst, s_direct, s_runs, s_stats,
                   s_components, s_now, s_restarts, s_error_count, s_kills, s_failed,
                   s_sig, s_signal>>
    /\ UNCHANGED notSchedVars

\* The stop() of the automatic restart, once shutdown(wait=True) has returned: it
\* records scheduler_stopped and saves the state (1558-1561); restart() then sleeps
\* (line 1577).
RestartStops ==
    /\ Alive
    /\ s_mon = "stopping"
    /\ s_inst = {}
    /\ LET stopped == RecordEvent(s_history, "scheduler_stopped", s_now)
       IN  /\ s_history' = stopped
           /\ s_file' = SavedState(s_running, stopped, s_stats, s_health, s_error_count)
           /\ s_written' = MemoryState(stopped, s_stats, s_health, s_error_count)
    /\ s_mon' = "restarting"
    /\ UNCHANGED <<s_running, s_sched_up, s_jobs, s_opts, s_started, s_inst, s_direct,
                   s_runs, s_stats, s_health, s_components, s_now, s_restarts,
                   s_disabled, s_jobs_before, s_error_count, s_kills, s_failed, s_sig,
                   s_signal>>
    /\ UNCHANGED notSchedVars

\* The rest of the automatic restart, when the sleep(2) of restart() is over: start()
\* with the options of the restart: load_state, initialize_components (ok), the
\* jobs, the scheduler_started event; then check_error_recovery records
\* scheduler_restarted (line 485) and the loop saves the state and sleeps.
RestartCompletes(ok) ==
    /\ Alive
    /\ s_mon = "restarting"
    /\ LET t == s_now + RestartPause
           loaded == RestoreState(s_file, MemoryState(s_history, s_stats, s_health,
                                                      s_error_count))
           opts == RestartOptions(s_opts)
           h3 == IF ok THEN RecordEvent(loaded.history, "scheduler_started", t)
                 ELSE loaded.history
           h4 == RecordEvent(h3, "scheduler_restarted", t)
           running == IF ok THEN TRUE ELSE s_running
       IN  /\ s_now' = t
           /\ s_stats' = loaded.stats
           /\ s_health' = loaded.health
           /\ s_error_count' = loaded.error_count
           /\ s_history' = h4
           /\ s_file' = SavedState(running, h4, loaded.stats, loaded.health,
                                   loaded.error_count)
           /\ s_written' = MemoryState(h4, loaded.stats, loaded.health,
                                       loaded.error_count)
           /\ s_restarts' = Append(s_restarts, t)
           /\ s_running' = running
           /\ IF ok
                 THEN /\ s_jobs' = JobsFor(opts)
                      /\ s_sched_up' = TRUE
                      /\ s_components' = TRUE
                 ELSE /\ s_jobs' = {}
                      /\ UNCHANGED <<s_sched_up, s_components>>
    /\ s_mon' = "sleeping"
    /\ UNCHANGED <<s_opts, s_started, s_inst, s_direct, s_runs, s_disabled,
                   s_jobs_before, s_kills, s_failed, s_sig, s_signal>>
    /\ UNCHANGED notSchedVars

\* _signal_handler, lines 249-251, run by the main thread on SIGINT or SIGTERM:
\* is_running = False, the signal_received event, save_state.
SignalHandler ==
    /\ Alive
    /\ s_started
    /\ s_sig = "loop"
    /\ LET h == RecordEvent(s_history, "signal_received", s_now)
       IN  /\ s_history' = h
           /\ s_file' = SavedState(FALSE, h, s_stats, s_health, s_error_count)
           /\ s_written' = MemoryState(h, s_stats, s_health, s_error_count)
    /\ s_running' = FALSE
    /\ s_sig' = "handler"
    /\ s_signal' = TRUE
    /\ UNCHANGED <<s_sched_up, s_jobs, s_opts, s_started, s_inst, s_direct, s_runs,
                   s_stats, s_health, s_components, s_now, s_mon, s_restarts,
                   s_disabled, s_jobs_before, s_error_count, s_kills, s_failed>>
    /\ UNCHANGED notSchedVars

\* run_forever, lines 1673-1679: the loop "while self.is_running" finds is_running
\* False (an automatic restart has called stop()) and the finally clause is entered.
MainLeavesLoop ==
    /\ Alive
    /\ s_started
    /\ s_sig = "loop"
    /\ ~s_running
    /\ s_sig' = "finally"
    /\ UNCHANGED <<s_running, s_sched_up, s_jobs, s_opts, s_started, s_inst, s_direct,
                   s_runs, s_stats, s_history, s_health, s_components, s_now, s_file,
                   s_mon, s_restarts, s_disabled, s_jobs_before, s_error_count, s_kills,
                   s_written, s_failed, s_signal>>
    /\ UNCHANGED notSchedVars

\* stop(), lines 1548-1561, called by the main thread from _signal_handler (line 253;
\* sys.exit(0) follows and reaches the finally clause of run_forever) or from the
\* finally clause of run_forever (line 1679): is_running = False; shutdown(wait=True)
\* if the scheduler runs, which returns when the running jobs have ended and empties
\* the job store; the scheduler_stopped event; save_state.
Stop(caller) ==
    /\ Alive
    /\ s_sig = caller
    /\ s_sched_up => s_inst = {}
    /\ LET h == RecordEvent(s_history, "scheduler_stopped", s_now)
       IN  /\ s_history' = h
           /\ s_file' = SavedState(FALSE, h, s_stats, s_health, s_error_count)
           /\ s_written' = MemoryState(h, s_stats, s_health, s_error_count)
    /\ s_running' = FALSE
    /\ s_sched_up' = FALSE
    /\ s_jobs' = IF s_sched_up THEN {} ELSE s_jobs
    /\ s_sig' = IF caller = "handler" THEN "finally" ELSE "done"
    /\ UNCHANGED <<s_opts, s_started, s_inst, s_direct, s_runs, s_stats, s_health,
                   s_components, s_now, s_mon, s_restarts, s_disabled, s_jobs_before,
                   s_error_count, s_kills, s_failed, s_signal>>
    /\ UNCHANGED notSchedVars

\* The main thread has ended; the interpreter has joined the worker threads of the
\* executor and ends the process with its daemon threads (the monitor thread, line
\* 381).  The memory of the process is gone, the state file stays.
ProcessExit ==
    /\ s_sig = "done"
    /\ s_inst = {}
    /\ s_direct = {}
    /\ s_sig' = "exited"
    /\ s_running' = FALSE
    /\ s_sched_up' = FALSE
    /\ s_jobs' = {}
    /\ s_opts' = NoOptions
    /\ s_stats' = NoStats
    /\ s_history' = <<>>
    /\ s_health' = "unknown"
    /\ s_components' = FALSE
    /\ s_mon' = "off"
    /\ s_error_count' = 0
    /\ s_failed' = {}
    /\ s_disabled' = FALSE
    /\ s_jobs_before' = {}
    /\ UNCHANGED <<s_started, s_inst, s_direct, s_runs, s_now, s_file, s_restarts,
                   s_kills, s_written, s_signal>>
    /\ UNCHANGED notSchedVars

\* _monitor_loop, line 408: time.sleep(monitor_interval) is over
MonitorWakes ==
    /\ Alive
    /\ s_mon = "sleeping"
    /\ s_now < MaxSchedTime
    /\ s_now' = s_now + monitor_interval
    /\ s_mon' = "ready"
    /\ UNCHANGED <<s_running, s_sched_up, s_jobs, s_opts, s_started, s_inst, s_direct,
                   s_runs, s_stats, s_history, s_health, s_components, s_file,
                   s_restarts, s_disabled, s_jobs_before>>
    /\ UNCHANGED <<s_error_count, s_kills, s_written, s_failed, s_sig, s_signal>>
    /\ UNCHANGED notSchedVars

\* the lengths of the execution history after a long run: up to the 50 entries that
\* save_state writes, one more, and the max_history_size entries of a full history
HistoryLengths == {SavedHistorySize, SavedHistorySize + 1, max_history_size}

\* a history of n job events, the last of them at time 0
LongRunHistory(n) == [k \in 1..n |-> Event("job_executed", k - n)]

\* the counters after 100 successful and 60 failed executions, and after a single
\* successful one
LongRunStats ==
    {[total |-> 160, successful |-> 100, failed |-> 60],
     [total |-> 1, successful |-> 1, failed |-> 0]}

\* A scheduler started by main.py (lines 372-378) that has run for a long time: the
\* monitor loop has just checked the health, saved the state and gone to sleep.
AfterLongRun ==
    \E n \in HistoryLengths, stats \in LongRunStats, errors \in 0..MaxErrors :
        LET health == OverallStatus(stats, TRUE)
        IN  /\ s_running = TRUE
            /\ s_sched_up = TRUE
            /\ s_jobs = JobsFor(MainOptions)
            /\ s_opts = MainOptions
            /\ s_started = TRUE
            /\ s_inst = {}
            /\ s_direct = {}
            /\ s_runs = 0
            /\ s_stats = stats
            /\ s_history = LongRunHistory(n)
            /\ s_health = health
            /\ s_components = TRUE
            /\ s_mon = "sleeping"
            /\ s_now = 0
            /\ s_file = SavedState(TRUE, LongRunHistory(n), stats, health, errors)
            /\ s_restarts = <<>>
            /\ s_disabled = FALSE
            /\ s_jobs_before = {}
            /\ s_error_count = errors
            /\ s_kills = 0
            /\ s_written = MemoryState(LongRunHistory(n), stats, health, errors)
            /\ s_failed = {}
            /\ s_sig = "loop"
            /\ s_signal = FALSE

SchedNext ==
    \/ \E opts \in StartOptions, ok \in BOOLEAN : Start(opts, ok)
    \/ \E j \in JobIds : Fire(j)
    \/ \E j \in JobIds, failed \in BOOLEAN : JobEnds(j, failed)
    \/ \E j \in JobIds : RunJobOnceCalls(j)
    \/ \E j \in JobIds : RunJobOnceReturns(j)
    \/ MonitorCheck
    \/ RestartStops
    \/ \E ok \in BOOLEAN : RestartCompletes(ok)
    \/ MonitorWakes
    \/ \E opts \in StartOptions : StartRaises(opts)
    \/ Kill

\* the scheduler of main.py's start_scheduler (lines 363-385): start(), then
\* run_forever() in the main thread, where the signals arrive
SignalNext ==
    \/ \E ok \in BOOLEAN : Start(MainOptions, ok)
    \/ \E j \in JobIds : Fire(j)
    \/ \E j \in JobIds, failed \in BOOLEAN : JobEnds(j, failed)
    \/ MonitorCheck
    \/ RestartStops
    \/ \E ok \in BOOLEAN : RestartCompletes(ok)
    \/ MonitorWakes
    \/ SignalHandler
    \/ MainLeavesLoop
    \/ \E caller \in {"handler", "finally"} : Stop(caller)
    \/ ProcessExit

-----------------------------------------------------------------------------
(***************************************************************************)
(* SchedulerManager.record_event (scheduler_manager.py), which takes no    *)
(* lock: the main thread (start_with_recovery, stop_gracefully) and the    *)
(* monitor thread (check_health, check_error_recovery) run it, and the     *)
(* interpreter may switch threads between any two of its steps.            *)
(***************************************************************************)

(* Bound: events recorded in one run, beyond those the history starts with *)
MaxNewEvents == 3

HistThreads == {"main", "monitor"}

\* the event types each thread records (lines 129, 158 and 277, 306, 309)
EventTypeOf(t) == IF t = "main" THEN "scheduler_stopped" ELSE "health_check"

\* record_event, lines 179-184: the event; seq is a ghost, the rank of the event
\* among all the events recorded
HistEvent(type, seq) == [type |-> type, seq |-> seq]

\* a history of n earlier events, as the monitor loop leaves it
EarlierHistory(n) == [k \in 1..n |-> HistEvent("health_check", k)]

HistIdle ==
    /\ h_history = <<>>
    /\ h_count = 0
    /\ h_new = 0
    /\ h_pc = [t \in HistThreads |-> "idle"]
    /\ h_slice = [t \in HistThreads |-> <<>>]

HistInit ==
    /\ \E n \in {0, max_history_size - 1, max_history_size} :
          /\ h_history = EarlierHistory(n)
          /\ h_count = n
    /\ h_new = 0
    /\ h_pc = [t \in HistThreads |-> "idle"]
    /\ h_slice = [t \in HistThreads |-> <<>>]

\* line 186: self.execution_history.append(event)
HistAppend(t) ==
    /\ h_pc[t] = "idle"
    /\ h_new < MaxNewEvents
    /\ h_history' = Append(h_history, HistEvent(EventTypeOf(t), h_count + 1))
    /\ h_count' = h_count + 1
    /\ h_new' = h_new + 1
    /\ h_pc' = [h_pc EXCEPT ![t] = "appended"]
    /\ UNCHANGED h_slice
    /\ UNCHANGED notHistVars

\* line 189: if len(self.execution_history) > self.max_history_size
HistCheckLen(t) ==
    /\ h_pc[t] = "appended"
    /\ h_pc' = [h_pc EXCEPT ![t] = IF Len(h_history) > max_history_size
                                   THEN "over" ELSE "idle"]
    /\ UNCHANGED <<h_history, h_count, h_new, h_slice>>
    /\ UNCHANGED notHistVars

\* line 190, right-hand side: self.execution_history[-self.max_history_size:]
HistSlice(t) ==
    /\ h_pc[t] = "over"
    /\ h_slice' = [h_slice EXCEPT ![t] = LastN(h_history, max_history_size)]
    /\ h_pc' = [h_pc EXCEPT ![t] = "sliced"]
    /\ UNCHANGED <<h_history, h_count, h_new>>
    /\ UNCHANGED notHistVars

\* line 190, the assignment: self.execution_history = <the slice>
HistAssign(t) ==
    /\ h_pc[t] = "sliced"
    /\ h_history' = h_slice[t]
    /\ h_slice' = [h_slice EXCEPT ![t] = <<>>]
    /\ h_pc' = [h_pc EXCEPT ![t] = "idle"]
    /\ UNCHANGED <<h_count, h_new>>
    /\ UNCHANGED notHistVars

HistNext ==
    \/ \E t \in HistThreads : HistAppend(t)
    \/ \E t \in HistThreads : HistCheckLen(t)
    \/ \E t \in HistThreads : HistSlice(t)
    \/ \E t \in HistThreads : HistAssign(t)

-----------------------------------------------------------------------------
(***************************************************************************)
(* News store: DatabaseManager.save_news_items_batch on the news_items     *)
(* table, whose only key is the id column.  Strings are sequences of       *)
(* characters; time is in whole seconds, as int(datetime.now().timestamp())*)
(* gives it.                                                               *)
(***************************************************************************)

(* Bounds: item objects alive in one process, calls of save_news_items_batch,
   the clock and the number of processes *)
MaxObjects == 2

MaxSaves == 2

MaxStoreTime == 1

MaxProcesses == 2

\* titles and urls of collected items; <<1>> \o <<2, 3>> = <<1, 2>> \o <<3>>
Titles == {<<1>>, <<1, 2>>}

Urls == {<<2, 3>>, <<3>>}

Sources == {"sina", "rss"}

NoId == <<>>

\* hash(str): a function of the string and of the process's hash seed
\* (str hashes are salted per interpreter process)
HashStr(s, seed) == <<seed, s>>

\* save_news_items_batch, line 279:
\* f"{news_item.source}_{hash(news_item.title + news_item.url)}_{int(datetime.now().timestamp())}"
GenerateId(item, seed, now) == <<item.source, HashStr(item.title \o item.url, seed), now>>

\* NewsItem.to_dict, lines 51-68, as the columns of the row
RowOf(item, now) ==
    [id |-> item.id, title |-> item.title, url |-> item.url, source |-> item.source,
     created_at |-> item.created_at, updated_at |-> now]

\* INSERT OR REPLACE INTO news_items: the row with the same id is replaced
InsertOrReplace(rows, row) == {r \in rows : r.id # row.id} \cup {row}

\* check_news_exists, lines 524-551, as the claims use it: a row with this title
\* and this url
StoredAlready(rows, item) ==
    \E r \in rows : r.title = item.title /\ r.url = item.url

\* save_news_items_batch, lines 275-313: the loop over the batch from position k on;
\* objs are the item objects (an object without id gets one), rows the table,
\* n the success count.
RECURSIVE SaveLoop(_, _, _, _, _, _, _)
SaveLoop(batch, k, objs, rows, n, seed, now) ==
    IF k > Len(batch) THEN [objs |-> objs, rows |-> rows, count |-> n]
    ELSE LET o == batch[k]
             item == IF objs[o].id = NoId
                     THEN [objs[o] EXCEPT !.id = GenerateId(objs[o], seed, now)]
                     ELSE objs[o]
         IN  SaveLoop(batch, k + 1, [objs EXCEPT ![o] = item],
                      InsertOrReplace(rows, RowOf(item, now)), n + 1, seed, now)

\* the batches a caller can pass: lists of distinct item objects
Batches(n) ==
    {<<>>} \cup {<<i>> : i \in 1..n}
           \cup {p \in (1..n) \X (1..n) : p[1] # p[2]}

NoSave == [called |-> FALSE, stored_before |-> FALSE, count |-> 0, rows_before |-> {}]

StoreIdle ==
    /\ d_rows = {}
    /\ d_objs = <<>>
    /\ d_now = 0
    /\ d_seed = 1
    /\ d_saves = 0
    /\ d_last = NoSave

\* a collector builds a NewsItem (NewsItem.__init__, lines 21-49): no id
CollectItem(title, url, source) ==
    /\ Len(d_objs) < MaxObjects
    /\ d_objs' = Append(d_objs, [id |-> NoId, title |-> title, url |-> url,
                                 source |-> source, created_at |-> d_now])
    /\ UNCHANGED <<d_rows, d_now, d_seed, d_saves, d_last>>
    /\ UNCHANGED notStoreVars

\* save_news_items_batch(news_items), lines 260-322
SaveNewsItemsBatch(batch) ==
    /\ d_saves < MaxSaves
    /\ \A k \in DOMAIN batch : batch[k] \in DOMAIN d_objs
    /\ LET out == SaveLoop(batch, 1, d_objs, d_rows, 0, d_seed, d_now)
       IN  /\ d_rows' = out.rows
           /\ d_objs' = out.objs
           /\ d_last' = [called |-> TRUE,
                         stored_before |->
                             /\ batch # <<>>
                             /\ \A k \in DOMAIN batch : StoredAlready(d_rows, d_objs[batch[k]]),
                         count |-> out.count,
                         rows_before |-> d_rows]
    /\ d_saves' = d_saves + 1
    /\ UNCHANGED <<d_now, d_seed>>
    /\ UNCHANGED notStoreVars

\* a second of wall-clock time passes
StoreTick ==
    /\ d_now < MaxStoreTime
    /\ d_now' = d_now + 1
    /\ UNCHANGED <<d_rows, d_objs, d_seed, d_saves, d_last>>
    /\ UNCHANGED notStoreVars

\* the process ends and a new one starts on the same database file: the item objects
\* are gone and the interpreter has a new hash seed
StoreProcessRestart ==
    /\ d_seed < MaxProcesses
    /\ d_seed' = d_seed + 1
    /\ d_objs' = <<>>
    /\ UNCHANGED <<d_rows, d_now, d_saves, d_last>>
    /\ UNCHANGED notStoreVars

StoreNext ==
    \/ \E title \in Titles, url \in Urls, source \in Sources :
          CollectItem(title, url, source)
    \/ \E batch \in Batches(MaxObjects) : SaveNewsItemsBatch(batch)
    \/ StoreTick
    \/ StoreProcessRestart

-----------------------------------------------------------------------------
(***************************************************************************)
(* The jobs of the enhanced strategy (scheduler.py): morning_collection    *)
(* and trading_hours_collection run collect_and_analyze_news and send an   *)
(* email with the items that pass the score thresholds.  An item is        *)
(* [id, score]: its position in the collector's list and the               *)
(* importance_score that batch_analyze_importance gives it.  Times are     *)
(* minutes since midnight, local time.                                     *)
(***************************************************************************)

(* Bounds: the items collected in one cycle *)
MaxFresh == 11

MaxIntraday == 3

\* importance scores: below every threshold, on the email threshold, above all
Scores == {49, 50, 80}

\* tick times of trading_hours_collection: 07:59, 10:30, 16:01
TickTimes == {479, 630, 961}

(* _morning_collection_with_email, line 1037 *)
MorningMinScore == 50

(* _trading_hours_collection, line 1064 *)
IntradayMinScore == 70

(* _send_instant_email, line 1180 *)
EmailMinScore == 50

(* _generate_instant_report, line 1263: news_list[:10] *)
ReportLimit == 10

\* the NewsItem objects of a cycle, from the scores in collection order
ItemsOf(scores) == [k \in DOMAIN scores |-> [id |-> k, score |-> scores[k]]]

\* Mutation of FilterNewsByScore: an item on the threshold is left out.
RECURSIVE FilterNewsAboveScore(_, _)
FilterNewsAboveScore(news, min_score) ==
    IF news = <<>> THEN <<>>
    ELSE LET rest == FilterNewsAboveScore(Tail(news), min_score)
         IN  IF Head(news).score > min_score THEN <<Head(news)>> \o rest ELSE rest

\* _filter_news_by_score, lines 134-165: the items with importance_score >= min_score,
\* in their order
RECURSIVE FilterNewsByScore(_, _)
FilterNewsByScore(news, min_score) ==
    IF news = <<>> THEN <<>>
    ELSE LET rest == FilterNewsByScore(Tail(news), min_score)
         IN  IF Head(news).score >= min_score THEN <<Head(news)>> \o rest ELSE rest

\* x put into a list sorted by descending score, after the items of equal score
RECURSIVE InsertByScore(_, _)
InsertByScore(sorted, x) ==
    IF sorted = <<>> THEN <<x>>
    ELSE IF Head(sorted).score >= x.score
         THEN <<Head(sorted)>> \o InsertByScore(Tail(sorted), x)
         ELSE <<x>> \o sorted

\* sorted(filtered_news, key=importance_score, reverse=True), line 1187: stable
RECURSIVE SortedByScore(_)
SortedByScore(news) ==
    IF news = <<>> THEN <<>>
    ELSE InsertByScore(SortedByScore(SubSeq(news, 1, Len(news) - 1)), news[Len(news)])

\* _generate_instant_report, lines 1232-1299: the report renders news_list[:10]; its
\* content is given by the ids of the items rendered
GenerateInstantReport(news) ==
    LET shown == SubSeq(news, 1, Min(Len(news), ReportLimit))
    IN  [k \in DOMAIN shown |-> shown[k].id]

\* _send_instant_email, lines 1173-1207: the emails after the call; nothing is sent
\* when no item reaches 50 or when send_simple_email raises (sent = FALSE)
SendInstantEmail(emails, news, sent) ==
    LET filtered == FilterNewsByScore(news, EmailMinScore)
    IN  IF filtered = <<>> \/ ~sent THEN emails
        ELSE Append(emails, GenerateInstantReport(SortedByScore(filtered)))

\* collect_and_analyze_news, lines 964-1025: the scored items, saved and returned; an
\* exception on the way (ok = FALSE) gives [] and, raised before line 1018, saves
\* nothing
CollectAndAnalyzeNews(scores, ok) == IF ok THEN ItemsOf(scores) ELSE <<>>

\* _trading_hours_collection, line 1056: datetime.time(8, 0), where datetime is the
\* class datetime.datetime (import at line 11): the method descriptor "time" applied
\* to the int 8 raises TypeError, whatever the time is
TradingHoursTest(t) == "TypeError"

NoTick == [job |-> "none", time |-> 0, scores |-> <<>>, cycle |-> FALSE, ok |-> FALSE]

CycleIdle ==
    /\ c_fresh = <<>>
    /\ c_db = {}
    /\ c_emails = <<>>
    /\ c_log = <<>>
    /\ c_last = NoTick

\* the sources publish an item that the collector has not seen (at most limit of them
\* before the next tick)
NewsPublished(score, limit) ==
    /\ c_last = NoTick
    /\ Len(c_fresh) < limit
    /\ c_fresh' = Append(c_fresh, score)
    /\ UNCHANGED <<c_db, c_emails, c_log, c_last>>
    /\ UNCHANGED notCycleVars

\* _morning_collection_with_email, lines 1027-1048, and _job_executed_listener: the
\* cycle, the filter at 50, the email; the job ends without an exception
MorningCollectionWithEmail(ok, sent) ==
    /\ c_last = NoTick
    /\ LET news_list == CollectAndAnalyzeNews(c_fresh, ok)
           filtered_news == FilterNewsByScore(news_list, MorningMinScore)
       IN  /\ c_db' = c_db \cup {news_list[k].id : k \in DOMAIN news_list}
           /\ c_emails' = IF filtered_news # <<>>
                          THEN SendInstantEmail(c_emails, filtered_news, sent)
                          ELSE c_emails
    /\ c_fresh' = IF ok THEN <<>> ELSE c_fresh
    /\ c_log' = Append(c_log, "job_executed")
    /\ c_last' = [job |-> "morning_collection", time |-> 480, scores |-> c_fresh,
                  cycle |-> TRUE, ok |-> ok]
    /\ UNCHANGED notCycleVars

\* _trading_hours_collection, lines 1050-1077, and _job_executed_listener: inside the
\* window the cycle, the filter at 70, the email; outside nothing; an exception is
\* logged and raised again, and the listener records job_failed
TradingHoursCollection(t, ok, sent) ==
    /\ c_last = NoTick
    /\ LET test == TradingHoursTest(t)
           news_list == IF test = "inside" THEN CollectAndAnalyzeNews(c_fresh, ok)
                        ELSE <<>>
           high_priority_news == FilterNewsByScore(news_list, IntradayMinScore)
       IN  /\ c_db' = c_db \cup {news_list[k].id : k \in DOMAIN news_list}
           /\ c_emails' = IF high_priority_news # <<>>
                          THEN SendInstantEmail(c_emails, high_priority_news, sent)
                          ELSE c_emails
           /\ c_fresh' = IF test = "inside" /\ ok THEN <<>> ELSE c_fresh
           /\ c_log' = Append(c_log, IF test = "TypeError" THEN "job_failed"
                                     ELSE "job_executed")
           /\ c_last' = [job |-> "trading_hours_collection", time |-> t,
                         scores |-> c_fresh, cycle |-> (test = "inside"), ok |-> ok]
    /\ UNCHANGED notCycleVars

MorningNext ==
    \/ \E score \in Scores : NewsPublished(score, MaxFresh)
    \/ \E ok \in BOOLEAN, sent \in BOOLEAN : MorningCollectionWithEmail(ok, sent)

IntradayNext ==
    \/ \E score \in Scores : NewsPublished(score, MaxIntraday)
    \/ \E t \in TickTimes, ok \in BOOLEAN, sent \in BOOLEAN :
          TradingHoursCollection(t, ok, sent)

-----------------------------------------------------------------------------
(***************************************************************************)
(* The pipeline jobs on the news store: full_pipeline (the job main.py     *)
(* starts), evening_collection of the enhanced strategy, and maintenance.  *)
(* A feed entry is [title, time]; entries have distinct titles and urls.   *)
(* A row of news_items is [title, time, score], with time the publish_time *)
(* in days and score the importance_score column.                          *)
(***************************************************************************)

(* Bounds: entries the feed ever serves, emails sent, the calendar *)
MaxEntries == 3

MaxEmails == 2

MaxDays == 31

\* importance scores given by ImportanceAnalyzer: below 50 and above 70
PipeScores == {49, 80}

(* NewsItem.__init__, database.py line 31: importance_score of a new item *)
DefaultScore == 0

(* _analysis_task, line 858: get_news_items(limit=20) *)
AnalysisLimit == 20

(* _email_task, line 900: get_news_items(limit=10) *)
EmailLimit == 10

(* _email_task, line 914: filtered_news[:5] *)
EmailAnalysisLimit == 5

(* _maintenance_task, line 1131: max_days default *)
RetentionDays == 30

(* DeepAnalyzer, deep_analyzer.py: score_threshold default *)
DeepThreshold == 70

EntryTitles == 1..MaxEntries

\* the sets of items whose analyze_news call raises during one job run
FailureSets == SUBSET EntryTitles

\* the scores batch_analyze_importance can give to the items of one cycle
Scorings == [EntryTitles -> PipeScores]

TitlesOf(rows) == {r.title : r \in rows}

\* Mutation of CheckNewsExists: no stored row is ever found
CheckNewsExistsNever(rows, title) == FALSE

\* check_news_exists(title, url), database.py lines 524-551; an entry's url is as
\* distinct as its title
CheckNewsExists(rows, title) == \E r \in rows : r.title = title

\* _deduplicate_news, news_collector.py lines 635-668: the entries that are not stored
\* (titles in a feed are distinct and not blank)
DeduplicateNews(entries, rows) == {e \in entries : ~CheckNewsExists(rows, e.title)}

\* collect_all_news, news_collector.py lines 75-131: the new items and the table after
\* save_news_items_batch; a failing fetch (ok = FALSE) gives no item
CollectAllNews(feed, rows, ok) ==
    LET raw_news == IF ok THEN feed ELSE {}
        filtered_news == DeduplicateNews(raw_news, rows)
    IN  [raw |-> TitlesOf(raw_news),
         news |-> filtered_news,
         rows |-> rows \cup {[title |-> e.title, time |-> e.time, score |-> DefaultScore] :
                               e \in filtered_news}]

\* get_news_items(limit), database.py lines 376-448: ORDER BY publish_time DESC LIMIT ?;
\* among rows of equal publish_time the order is the database's choice
GetNewsItems(rows, limit) ==
    IF Cardinality(rows) <= limit THEN rows
    ELSE CHOOSE latest \in SUBSET rows :
             /\ Cardinality(latest) = limit
             /\ \A in \in latest, out \in rows \ latest : in.time >= out.time

\* _email_task, lines 895-921: the items of the report: of the 10 latest rows those
\* that score 50 or more, the first 5 of them, without those whose analysis raises
EmailTaskItems(rows, failed) ==
    LET news_list == GetNewsItems(rows, EmailLimit)
        filtered_news == {r \in news_list : r.score >= EmailMinScore}
        first == GetNewsItems(filtered_news, EmailAnalysisLimit)
    IN  {r.title : r \in first} \ failed

NoRun == [job |-> "none", raw |-> {}, news |-> {}, rows |-> {}, sent |-> 0]

PipeIdle ==
    /\ p_feed = {}
    /\ p_rows = {}
    /\ p_analysis = {}
    /\ p_deep = {}
    /\ p_sent = <<>>
    /\ p_mode = "stopped"
    /\ p_now = 0
    /\ p_last = NoRun

PipeData == <<p_feed, p_rows, p_analysis, p_deep, p_sent, p_now>>

\* the source publishes an entry with a new title
FeedPublishes(title) ==
    /\ title \notin {e.title : e \in p_feed}
    /\ p_feed' = p_feed \cup {[title |-> title, time |-> p_now]}
    /\ UNCHANGED <<p_rows, p_analysis, p_deep, p_sent, p_mode, p_now, p_last>>
    /\ UNCHANGED notPipeVars

\* more than the retention period passes
DaysPass ==
    /\ p_now + RetentionDays + 1 <= MaxDays
    /\ p_now' = p_now + RetentionDays + 1
    /\ UNCHANGED <<p_feed, p_rows, p_analysis, p_deep, p_sent, p_mode, p_last>>
    /\ UNCHANGED notPipeVars

\* start(...), scheduler.py lines 1448-1540: with enable_enhanced_strategy
\* ("enhanced"), with the options of main.py lines 372-378 ("full_pipeline": the
\* full_pipeline job and maintenance), or with the defaults ("default":
\* news_collection, ai_analysis, email_report, maintenance)
StartJobs(mode) ==
    /\ p_mode = "stopped"
    /\ p_mode' = mode
    /\ UNCHANGED <<PipeData, p_last>>
    /\ UNCHANGED notPipeVars

\* stop(), lines 1542-1570
StopJobs ==
    /\ p_mode # "stopped"
    /\ p_mode' = "stopped"
    /\ UNCHANGED <<PipeData, p_last>>
    /\ UNCHANGED notPipeVars

\* _news_collection_task, lines 828-847: collect_all_news fetches the feed, drops the
\* entries that are stored and saves the others
NewsCollectionTask(fetched) ==
    /\ p_mode = "default"
    /\ LET c == CollectAllNews(p_feed, p_rows, fetched)
       IN  /\ p_rows' = c.rows
           /\ p_last' = [job |-> "news_collection", raw |-> c.raw,
                         news |-> TitlesOf(c.news), rows |-> p_rows,
                         sent |-> Len(p_sent)]
    /\ UNCHANGED <<p_feed, p_analysis, p_deep, p_sent, p_mode, p_now>>
    /\ UNCHANGED notPipeVars

\* _evening_collection_no_email, lines 1079-1092: collect_and_analyze_news (lines
\* 964-1025): collect and save, score, analyze, save again; an exception after the
\* collection (ok = FALSE) leaves the rows as collect_all_news saved them
EveningCollectionNoEmail(scoring, fetched, ok) ==
    /\ p_mode = "enhanced"
    /\ LET c == CollectAllNews(p_feed, p_rows, fetched)
           scored == {[title |-> e.title, time |-> e.time, score |-> scoring[e.title]] :
                        e \in c.news}
       IN  /\ p_rows' = IF ok THEN {r \in c.rows : r.title \notin TitlesOf(scored)}
                                      \cup scored
                        ELSE c.rows
           /\ p_last' = [job |-> "evening_collection", raw |-> c.raw,
                         news |-> TitlesOf(c.news),
                         rows |-> p_rows, sent |-> Len(p_sent)]
    /\ UNCHANGED <<p_feed, p_analysis, p_deep, p_sent, p_mode, p_now>>
    /\ UNCHANGED notPipeVars

\* _full_pipeline_task, lines 936-962: _news_collection_task (828-847), then with a new
\* item _analysis_task (849-885), then with an analysis result _email_task (887-934)
\* and send_analysis_report (email_sender.py 74-120, sent = FALSE when it fails)
FullPipelineTask(fetched, failed, sent) ==
    /\ p_mode = "full_pipeline"
    /\ Len(p_sent) < MaxEmails
    /\ LET c == CollectAllNews(p_feed, p_rows, fetched)
           news_count == Cardinality(c.news)
           analysed == IF news_count > 0
                       THEN TitlesOf(GetNewsItems(c.rows, AnalysisLimit)) \ failed
                       ELSE {}
           analysis_count == Cardinality(analysed)
           results == IF analysis_count > 0 THEN EmailTaskItems(c.rows, failed) ELSE {}
       IN  /\ p_rows' = c.rows
           /\ p_analysis' = p_analysis \cup analysed
           /\ p_sent' = IF results # {} /\ sent
                        THEN Append(p_sent, [job |-> "full_pipeline", items |-> results])
                        ELSE p_sent
           /\ p_last' = [job |-> "full_pipeline", raw |-> c.raw,
                         news |-> TitlesOf(c.news),
                         rows |-> p_rows, sent |-> Len(p_sent)]
    /\ UNCHANGED <<p_feed, p_deep, p_mode, p_now>>
    /\ UNCHANGED notPipeVars

\* _maintenance_task, lines 1125-1148: the cutoff date is computed and logged, the log
\* files are cleaned, the health is checked; no row is deleted
MaintenanceTask ==
    /\ p_mode # "stopped"
    /\ p_last' = [job |-> "maintenance", raw |-> {}, news |-> {}, rows |-> p_rows,
                  sent |-> Len(p_sent)]
    /\ UNCHANGED <<PipeData, p_mode>>
    /\ UNCHANGED notPipeVars

\* the retention periods delete_old_news is called with: none, and the default
DeleteDays == {0, RetentionDays}

\* Mutation of DeleteOldRows: the analysis results of the deleted items are kept
DeleteOldRowsOnly(rows, analysis, cutoff_date) ==
    [rows |-> {r \in rows : ~(r.time < cutoff_date)},
     analysis |-> analysis]

\* delete_old_news, database.py lines 491-513: DELETE FROM analysis_results WHERE
\* news_id IN (SELECT id FROM news_items WHERE publish_time < ?), then DELETE FROM
\* news_items WHERE publish_time < ?, in one transaction
DeleteOldRows(rows, analysis, cutoff_date) ==
    LET old == {r \in rows : r.time < cutoff_date}
    IN  [rows |-> rows \ old,
         analysis |-> analysis \ TitlesOf(old)]

\* delete_old_news(days), database.py lines 477-522; the ghost p_last keeps the ids of
\* the deleted analysis results in raw and those of the deleted items in news
DeleteOldNews(days) ==
    /\ LET cutoff_date == p_now - days
           left == DeleteOldRows(p_rows, p_analysis, cutoff_date)
       IN  /\ p_rows' = left.rows
           /\ p_analysis' = left.analysis
           /\ p_last' = [job |-> "delete_old_news", raw |-> p_analysis \ left.analysis,
                         news |-> TitlesOf(p_rows \ left.rows), rows |-> p_rows,
                         sent |-> Len(p_sent)]
    /\ UNCHANGED <<p_feed, p_deep, p_sent, p_mode, p_now>>
    /\ UNCHANGED notPipeVars

\* the store filled by the full pipeline job and emptied by delete_old_news
RetentionNext ==
    \/ \E title \in EntryTitles : FeedPublishes(title)
    \/ DaysPass
    \/ \E mode \in {"full_pipeline"} : StartJobs(mode)
    \/ \E fetched \in BOOLEAN, failed \in FailureSets, sent \in BOOLEAN :
          FullPipelineTask(fetched, failed, sent)
    \/ \E days \in DeleteDays : DeleteOldNews(days)

PipeNext ==
    \/ \E title \in EntryTitles : FeedPublishes(title)
    \/ DaysPass
    \/ \E mode \in {"enhanced", "full_pipeline", "default"} : StartJobs(mode)
    \/ StopJobs
    \/ \E fetched \in BOOLEAN : NewsCollectionTask(fetched)
    \/ \E scoring \in Scorings, fetched \in BOOLEAN, ok \in BOOLEAN :
          EveningCollectionNoEmail(scoring, fetched, ok)
    \/ \E fetched \in BOOLEAN, failed \in FailureSets, sent \in BOOLEAN :
          FullPipelineTask(fetched, failed, sent)
    \/ MaintenanceTask

-----------------------------------------------------------------------------
(***************************************************************************)
(* The Deep Analyzer (deep_analyzer.py) with its default configuration.    *)
(* An item is given by its importance_score (in a batch: its position and  *)
(* its score); a query is a string; the searches of one analysis succeed   *)
(* or fail as the search tool answers.                                     *)
(***************************************************************************)

(* Bounds: the items of one batch *)
MaxBatch == 3

\* importance scores: below the threshold, on it, above it
DeepScores == {69, 70, 85}

\* what the bonuses of _adjust_score_with_evidence (lines 734-763) can add up to:
\* none, 10 + 6, and the most, 10 + 3 + 6 + 4 + 5
Adjustments == {0, 16, 28}

(* __init__, line 83 *)
max_search_rounds == 3

(* __init__, line 84 *)
evidence_threshold == 2

(* __init__, line 75 *)
max_concurrent == 3

(* _adjust_score_with_evidence, line 766 *)
ScoreFloor == 0

ScoreCeiling == 100

\* __init__, line 73: deep_analysis.enabled
DeepEnabled == TRUE

\* the queries the planning call can produce, and the two fallbacks built from the title
\* (lines 336 and 345)
PlannedQueries == {"q1", "q2", "q3"}

\* title[:25] followed by the words for "latest news"
FallbackLatest == "title latest news"

\* title[:25] followed by the words for "related information"
FallbackRelated == "title related information"

\* _parse_search_queries, lines 348-378: the lists the response can parse to
Plans ==
    {<<>>} \cup {<<a>> : a \in PlannedQueries}
           \cup {p \in PlannedQueries \X PlannedQueries : p[1] # p[2]}
           \cup {<<"q1", "q2", "q3">>, <<"q3", "q1", "q2">>}

\* the answers of the search tool to the searches of one analysis, by round
SearchAnswers == [1..max_search_rounds -> BOOLEAN]

\* Mutation of ShouldAnalyze: every item passes the gate.
ShouldAnalyzeAlways(score) == TRUE

\* should_analyze, lines 122-138
ShouldAnalyze(score) == DeepEnabled /\ score >= DeepThreshold

\* _generate_search_queries, lines 292-346: the planning call, the parse, the cut to
\* max_search_rounds; a fallback query when nothing was parsed or the call raised
GenerateSearchQueries(plan, plan_ok) ==
    IF ~plan_ok THEN <<FallbackRelated>>
    ELSE LET queries == SubSeq(plan, 1, Min(Len(plan), max_search_rounds))
         IN  IF queries = <<>> THEN <<FallbackLatest>> ELSE queries

\* Mutation of SearchRounds: the loop does not stop at the evidence threshold
RECURSIVE SearchRoundsNoStop(_, _, _, _, _)
SearchRoundsNoStop(queries, k, answers, found, sent) ==
    IF k > Len(queries) THEN [found |-> found, sent |-> sent]
    ELSE SearchRoundsNoStop(queries, k + 1, answers,
                            IF answers[k] THEN Append(found, queries[k]) ELSE found,
                            Append(sent, queries[k]))

\* _analyze_with_ai_self_search, lines 187-205: the search rounds from round k on;
\* found are the queries of all_search_results, sent the queries passed to
\* _perform_single_search
RECURSIVE SearchRounds(_, _, _, _, _)
SearchRounds(queries, k, answers, found, sent) ==
    IF k > Len(queries) THEN [found |-> found, sent |-> sent]
    ELSE LET found2 == IF answers[k] THEN Append(found, queries[k]) ELSE found
             sent2 == Append(sent, queries[k])
         IN  IF Len(found2) >= evidence_threshold
             THEN [found |-> found2, sent |-> sent2]
             ELSE SearchRounds(queries, k + 1, answers, found2, sent2)

\* Mutation of AdjustScoreWithEvidence: the sum is not cut at the ceiling
AdjustScoreUnclamped(score, adjustment) == Max(ScoreFloor, score + adjustment)

\* _adjust_score_with_evidence, line 766
AdjustScoreWithEvidence(score, adjustment) ==
    Min(ScoreCeiling, Max(ScoreFloor, score + adjustment))

\* _create_skip_result, lines 683-696
CreateSkipResult(score) ==
    [original_score |-> score, adjusted_score |-> score, search_keywords |-> <<>>,
     search_success |-> FALSE, model_used |-> "skip"]

\* _create_error_result, lines 698-711
CreateErrorResult(score) ==
    [original_score |-> score, adjusted_score |-> score, search_keywords |-> <<>>,
     search_success |-> FALSE, model_used |-> "error"]

\* a call of the model (_call_ai_model): planned are the queries the planning call
\* gave, success is whether the call returned
LlmCall(planned, success) ==
    [kind |-> "llm", query |-> "", planned |-> planned, success |-> success]

\* a call of the search tool (_perform_single_search) and whether it succeeded
SearchCall(query, success) ==
    [kind |-> "search", query |-> query, planned |-> <<>>, success |-> success]

\* analyze_news_deep, lines 140-166, with _analyze_with_ai_self_search, lines 168-240:
\* the result and the calls made.  plan and plan_ok are the outcome of the planning
\* call, answers those of the searches, report_ok that of the report call (when it
\* raises, the RuntimeError ends in the error result), adjustment the bonus
AnalyzeNewsDeep(score, plan, plan_ok, answers, report_ok, adjustment) ==
    IF ~ShouldAnalyze(score) THEN [result |-> CreateSkipResult(score), calls |-> <<>>]
    ELSE LET search_queries == GenerateSearchQueries(plan, plan_ok)
             rounds == SearchRounds(search_queries, 1, answers, <<>>, <<>>)
             calls == <<LlmCall(search_queries, plan_ok)>>
                        \o [k \in DOMAIN rounds.sent |-> SearchCall(rounds.sent[k], answers[k])]
                        \o <<LlmCall(<<>>, report_ok)>>
         IN  IF ~report_ok THEN [result |-> CreateErrorResult(score), calls |-> calls]
             ELSE [result |-> [original_score |-> score,
                               adjusted_score |-> AdjustScoreWithEvidence(score, adjustment),
                               search_keywords |-> rounds.found,
                               search_success |-> Len(rounds.found) > 0,
                               model_used |-> "deepseek/deepseek-chat-v3.1"],
                   calls |-> calls]

NoDeepResult ==
    [original_score |-> 0, adjusted_score |-> 0, search_keywords |-> <<>>,
     search_success |-> FALSE, model_used |-> "none"]

NoBatch == [done |-> FALSE, results |-> <<>>]

DeepIdle ==
    /\ g_item = 0
    /\ g_calls = <<>>
    /\ g_result = NoDeepResult
    /\ g_batch = <<>>
    /\ g_pc = <<>>
    /\ g_results = <<>>
    /\ g_returned = NoBatch

\* one call of analyze_news_deep on an item
AnalyzeNewsDeepCall(score, plan, plan_ok, answers, report_ok, adjustment) ==
    /\ LET out == AnalyzeNewsDeep(score, plan, plan_ok, answers, report_ok, adjustment)
       IN  /\ g_result' = out.result
           /\ g_calls' = out.calls
    /\ g_item' = score
    /\ UNCHANGED <<g_batch, g_pc, g_results, g_returned>>
    /\ UNCHANGED notDeepVars

\* the news lists passed to batch_analyze_deep: up to MaxBatch items
RECURSIVE ScoreLists(_)
ScoreLists(n) ==
    IF n = 0 THEN {<<>>}
    ELSE LET shorter == ScoreLists(n - 1)
         IN  shorter \cup {Append(l, score) : l \in {x \in shorter : Len(x) = n - 1},
                                               score \in DeepScores}

NewsLists == ScoreLists(MaxBatch)

\* the plan of the analyses of a batch
BatchPlan == <<"q1">>

Running == {i \in DOMAIN g_pc : g_pc[i] = "running"}

\* Mutation of CollectResult: the result of a failed analysis is left out.
CollectResultUnlessError(results, r) ==
    IF r.result.model_used = "error" THEN results ELSE Append(results, r)

\* batch_analyze_deep, lines 276-284: results.append(result)
CollectResult(results, r) == Append(results, r)

\* batch_analyze_deep, line 287: results.sort(key=original_score, reverse=True), a
\* stable sort; r put after the results of equal or higher score
RECURSIVE InsertByOriginalScore(_, _)
InsertByOriginalScore(sorted, r) ==
    IF sorted = <<>> THEN <<r>>
    ELSE IF Head(sorted).result.original_score >= r.result.original_score
         THEN <<Head(sorted)>> \o InsertByOriginalScore(Tail(sorted), r)
         ELSE <<r>> \o sorted

RECURSIVE SortByOriginalScore(_)
SortByOriginalScore(results) ==
    IF results = <<>> THEN <<>>
    ELSE InsertByOriginalScore(SortByOriginalScore(SubSeq(results, 1, Len(results) - 1)),
                               results[Len(results)])

\* batch_analyze_deep, lines 244-271: the gate on every item; with no item passing
\* the call returns [] at once, otherwise every passing item is submitted to the pool
BatchAnalyzeDeep(news_list) ==
    /\ g_batch = <<>>
    /\ ~g_returned.done
    /\ news_list # <<>>
    /\ g_batch' = news_list
    /\ g_pc' = [i \in DOMAIN news_list |->
                  IF ShouldAnalyze(news_list[i]) THEN "queued" ELSE "out"]
    /\ g_returned' = [done |-> \A i \in DOMAIN news_list : ~ShouldAnalyze(news_list[i]),
                      results |-> <<>>]
    /\ UNCHANGED <<g_item, g_calls, g_result, g_results>>
    /\ UNCHANGED notDeepVars

\* ThreadPoolExecutor(max_workers=self.max_concurrent), line 266: a free worker takes
\* a submitted item
WorkerStarts(i) ==
    /\ i \in DOMAIN g_pc
    /\ g_pc[i] = "queued"
    /\ Cardinality(Running) < max_concurrent
    /\ g_pc' = [g_pc EXCEPT ![i] = "running"]
    /\ UNCHANGED <<g_item, g_calls, g_result, g_batch, g_results, g_returned>>
    /\ UNCHANGED notDeepVars

\* the worker's analyze_news_deep returns and the loop over as_completed, lines
\* 274-284, appends its result (analyze_news_deep catches every Exception itself, so
\* future.result() gives the error result and does not raise)
WorkerFinishes(i, plan_ok, answers, report_ok) ==
    /\ i \in DOMAIN g_pc
    /\ g_pc[i] = "running"
    /\ LET out == AnalyzeNewsDeep(g_batch[i], BatchPlan, plan_ok, answers, report_ok, 0)
       IN  g_results' = CollectResult(g_results, [news_id |-> i, result |-> out.result])
    /\ g_pc' = [g_pc EXCEPT ![i] = IF report_ok THEN "done" ELSE "failed"]
    /\ UNCHANGED <<g_item, g_calls, g_result, g_batch, g_returned>>
    /\ UNCHANGED notDeepVars

\* batch_analyze_deep, lines 286-290: every future has completed; sort and return
BatchReturns ==
    /\ g_batch # <<>>
    /\ ~g_returned.done
    /\ \A i \in DOMAIN g_pc : g_pc[i] \in {"out", "done", "failed"}
    /\ g_returned' = [done |-> TRUE, results |-> SortByOriginalScore(g_results)]
    /\ UNCHANGED <<g_item, g_calls, g_result, g_batch, g_pc, g_results>>
    /\ UNCHANGED notDeepVars

DeepNext ==
    \E score \in DeepScores, plan \in Plans, plan_ok \in BOOLEAN, answers \in SearchAnswers,
       report_ok \in BOOLEAN, adjustment \in Adjustments :
          AnalyzeNewsDeepCall(score, plan, plan_ok, answers, report_ok, adjustment)

DeepBatchNext ==
    \/ \E news_list \in NewsLists : BatchAnalyzeDeep(news_list)
    \/ \E i \in 1..MaxBatch : WorkerStarts(i)
    \/ \E i \in 1..MaxBatch, plan_ok \in BOOLEAN, answers \in SearchAnswers,
          report_ok \in BOOLEAN : WorkerFinishes(i, plan_ok, answers, report_ok)
    \/ BatchReturns

-----------------------------------------------------------------------------
(***************************************************************************)
(* One analyze_news call of the Impact Analyzer (ai/ai_analyzer.py) with a *)
(* client: the request to the main model, then the request to the fallback *)
(* model.  The code has no retry loop of its own on this path; each        *)
(* chat.completions.create call is retried inside the OpenAI client, which *)
(* by default sends a request again, up to 2 times, when the status is     *)
(* 408, 409, 429 or 5xx, and not for another status.                       *)
(***************************************************************************)

(* OpenAI client: DEFAULT_MAX_RETRIES *)
SdkMaxRetries == 2

\* response statuses: success, a client error, a server error
Statuses == {200, 401, 500}

\* OpenAI client, _should_retry: 408, 409, 429 and 500 or more
SdkShouldRetry(status) == status \in {408, 409, 429} \/ status >= 500

Is2xx(status) == 200 <= status /\ status < 300

RequestsTo(model) == SelectSeq(l_requests, LAMBDA r : r.model = model)

LlmIdle ==
    /\ l_pc = "idle"
    /\ l_requests = <<>>
    /\ l_configured = FALSE
    /\ l_result = "none"

\* the analyzer is built from a configuration with or without fallback_model
LlmInit ==
    /\ l_pc = "idle"
    /\ l_requests = <<>>
    /\ l_configured \in BOOLEAN
    /\ l_result = "none"

\* analyze_news, lines 218-227: with a client, the prompt is built and
\* _call_deepseek_api is entered
AnalyzeNewsBegins ==
    /\ l_pc = "idle"
    /\ l_pc' = "main"
    /\ UNCHANGED <<l_requests, l_configured, l_result>>
    /\ UNCHANGED notLlmVars

\* _call_deepseek_api, lines 374-386, and analyze_news, lines 227-233: a request to
\* the main model gets its response.  2xx: the content is parsed (parsed = FALSE: the
\* parse raises).  Otherwise the client retries or raises; every exception of the
\* main attempt leads to the fallback call of line 237
MainRequest(status, parsed) ==
    /\ l_pc = "main"
    /\ l_requests' = Append(l_requests, [model |-> "main", status |-> status])
    /\ LET sent == Len(RequestsTo("main")) + 1
       IN  IF Is2xx(status)
           THEN /\ l_pc' = IF parsed THEN "done" ELSE "fallback"
                /\ l_result' = IF parsed THEN "analysis" ELSE l_result
           ELSE /\ l_pc' = IF SdkShouldRetry(status) /\ sent <= SdkMaxRetries
                           THEN "main" ELSE "fallback"
                /\ l_result' = l_result
    /\ UNCHANGED l_configured
    /\ UNCHANGED notLlmVars

\* _call_deepseek_api_fallback, lines 434-492 (model: fallback_model, by default
\* "deepseek-chat"), and analyze_news, lines 237-246: a request to the fallback model
\* gets its response; a final failure gives _error_fallback_analysis
FallbackRequest(status, parsed) ==
    /\ l_pc = "fallback"
    /\ l_requests' = Append(l_requests, [model |-> "fallback", status |-> status])
    /\ LET sent == Len(RequestsTo("fallback")) + 1
       IN  IF Is2xx(status)
           THEN /\ l_pc' = "done"
                /\ l_result' = IF parsed THEN "analysis" ELSE "error_fallback"
           ELSE IF SdkShouldRetry(status) /\ sent <= SdkMaxRetries
                THEN /\ l_pc' = "fallback"
                     /\ l_result' = l_result
                ELSE /\ l_pc' = "done"
                     /\ l_result' = "error_fallback"
    /\ UNCHANGED l_configured
    /\ UNCHANGED notLlmVars

LlmNext ==
    \/ AnalyzeNewsBegins
    \/ \E status \in Statuses, parsed \in BOOLEAN : MainRequest(status, parsed)
    \/ \E status \in Statuses, parsed \in BOOLEAN : FallbackRequest(status, parsed)

-----------------------------------------------------------------------------
(***************************************************************************)
(* The write paths of the score columns: the parsers of the analyzers,     *)
(* which turn the number in the model's answer into a score, and the save  *)
(* functions, which write the score of the object they are given.          *)
(***************************************************************************)

\* numbers a model's answer or a caller can carry: below, inside and above [0,100]
RawScores27 == {0 - 5, 0, 50, 100, 150}

(* legacy ai_analyzer.py, line 316: max(-10, min(10, impact_score)) *)
LegacyImpactBound == 10

Clamp(lo, hi, value) == Max(lo, Min(hi, value))

\* importance_analyzer.py, _parse_importance_result, lines 242-243
ParseImportanceScore(raw) == Clamp(ScoreFloor, ScoreCeiling, raw)

\* ai/ai_analyzer.py, _parse_analysis_response, lines 724-725
ParseImpactScore(raw) == Clamp(ScoreFloor, ScoreCeiling, raw)

\* legacy src/ai_analyzer.py, _parse_analysis_response, lines 315-316
LegacyParseImpactScore(raw) == Clamp(0 - LegacyImpactBound, LegacyImpactBound, raw)

\* save_news_items_batch, database.py lines 283-301: data["importance_score"] is
\* written as the object holds it
SavedImportanceScore(value) == value

\* _save_analysis_result, ai/ai_analyzer.py lines 839-848: data["impact_score"] is
\* written as the result holds it
SavedImpactScore(value) == value

NoWrite == [path |-> "none", given |-> 0, stored |-> 0]

WriteIdle ==
    /\ w_importance = {}
    /\ w_impact = {}
    /\ w_last = NoWrite

\* collect_and_analyze_news, scheduler.py lines 992-1018: the score parsed by the
\* Importance Analyzer is put on the item and the item is saved
ImportanceWrite(raw) ==
    /\ LET stored == SavedImportanceScore(ParseImportanceScore(raw))
       IN  /\ w_importance' = w_importance \cup {stored}
           /\ w_last' = [path |-> "importance_analyzer", given |-> raw, stored |-> stored]
    /\ UNCHANGED w_impact
    /\ UNCHANGED notWriteVars

\* _analysis_task, scheduler.py lines 866-871: analyze_news parses the answer and
\* _save_analysis_result writes the result
ImpactWrite(raw) ==
    /\ LET stored == SavedImpactScore(ParseImpactScore(raw))
       IN  /\ w_impact' = w_impact \cup {stored}
           /\ w_last' = [path |-> "impact_analyzer", given |-> raw, stored |-> stored]
    /\ UNCHANGED w_importance
    /\ UNCHANGED notWriteVars

\* the legacy analyzer src/ai_analyzer.py: its parser and its save of the result
LegacyImpactWrite(raw) ==
    /\ LET stored == SavedImpactScore(LegacyParseImpactScore(raw))
       IN  /\ w_impact' = w_impact \cup {stored}
           /\ w_last' = [path |-> "legacy_impact_analyzer", given |-> raw, stored |-> stored]
    /\ UNCHANGED w_importance
    /\ UNCHANGED notWriteVars

\* save_news_items_batch called with an item that carries the value
DirectSave(value) ==
    /\ LET stored == SavedImportanceScore(value)
       IN  /\ w_importance' = w_importance \cup {stored}
           /\ w_last' = [path |-> "save_news_items_batch", given |-> value, stored |-> stored]
    /\ UNCHANGED w_impact
    /\ UNCHANGED notWriteVars

WriteNext ==
    \/ \E raw \in RawScores27 : ImportanceWrite(raw)
    \/ \E raw \in RawScores27 : ImpactWrite(raw)
    \/ \E raw \in RawScores27 : LegacyImpactWrite(raw)
    \/ \E value \in RawScores27 : DirectSave(value)

-----------------------------------------------------------------------------
(***************************************************************************)
(* check_health on its own: the listener counts the executions, the        *)
(* monitor loop calls check_health, which classifies the failure rate.     *)
(***************************************************************************)

\* the executions counted before the counters stop
MaxExecutions == 10

\* the health checks made
MaxChecks == 2

\* the keys of components_status, lines 423-428
ComponentNames == {"scheduler", "news_collector", "ai_analyzer", "email_sender"}

\* all(components_status.values()), line 441
AllComponents(flags) == \A c \in ComponentNames : flags[c]

\* failure_rate = recent_failures / max(total_executions, 1), line 435, kept as the
\* fraction num / den
FailureRate(stats) == [num |-> stats.failed, den |-> Max(stats.total, 1)]

\* self.health_status of __init__, lines 62-66
NoHealth ==
    [overall |-> "unknown", components |-> [c \in ComponentNames |-> FALSE],
     failure_rate |-> [num |-> 0, den |-> 1], stats |-> NoStats]

HealthIdle ==
    /\ k_stats = NoStats
    /\ k_components = [c \in ComponentNames |-> FALSE]
    /\ k_checks = 0
    /\ k_events = 0
    /\ k_health = NoHealth

\* the components are there or not, the scheduler runs or not; no job has run yet
HealthInit ==
    /\ k_stats = NoStats
    /\ k_components \in [ComponentNames -> BOOLEAN]
    /\ k_checks = 0
    /\ k_events = 0
    /\ k_health = NoHealth

\* _job_executed_listener, lines 256-265: one execution is counted
HealthJobExecuted(failed) ==
    /\ k_stats.total < MaxExecutions
    /\ k_stats' = CountExecution(k_stats, failed)
    /\ UNCHANGED <<k_components, k_checks, k_events, k_health>>
    /\ UNCHANGED notHealthVars

\* check_health, lines 414-466: the status is stored and, when it is not healthy,
\* a health_check event is recorded
CheckHealth ==
    /\ k_checks < MaxChecks
    /\ LET overall == OverallStatus(k_stats, AllComponents(k_components))
       IN  /\ k_health' = [overall |-> overall, components |-> k_components,
                            failure_rate |-> FailureRate(k_stats), stats |-> k_stats]
           /\ k_events' = IF overall # "healthy" THEN k_events + 1 ELSE k_events
    /\ k_checks' = k_checks + 1
    /\ UNCHANGED <<k_stats, k_components>>
    /\ UNCHANGED notHealthVars

HealthNext ==
    \/ \E failed \in BOOLEAN : HealthJobExecuted(failed)
    \/ CheckHealth

-----------------------------------------------------------------------------
(***************************************************************************)
(* Construction of the analyzers with and without an API key, and the      *)
(* calls the constructed objects accept.                                   *)
(***************************************************************************)

\* the calls made on one object
MaxAnalyzeCalls == 2

\* AIAnalyzer (ai/ai_analyzer.py), ImportanceAnalyzer, DeepAnalyzer
Analyzers == {"impact", "importance", "deep"}

\* _setup_client, ai/ai_analyzer.py lines 155-179, and _init_client,
\* importance_analyzer.py lines 76-95: without a key a warning is logged and
\* self.client = None; _init_client, deep_analyzer.py lines 100-120: without a key
\* ValueError is raised and leaves __init__ as RuntimeError
InitClient(analyzer, key) ==
    IF key THEN "client"
    ELSE IF analyzer = "deep" THEN "raised"
    ELSE "mock"

\* analyze_news (ai/ai_analyzer.py 218-220) and analyze_importance
\* (importance_analyzer.py 107-108) return _mock_analysis when client is None; an
\* object whose constructor raised does not exist
AcceptsCalls(state) == state \in {"client", "mock"}

CtorIdle ==
    /\ a_key = [a \in Analyzers |-> FALSE]
    /\ a_state = [a \in Analyzers |-> "none"]
    /\ a_results = [a \in Analyzers |-> 0]

\* AIAnalyzer(), ImportanceAnalyzer(), DeepAnalyzer() with or without a key in the
\* configuration and the environment
Construct(analyzer, key) ==
    /\ a_key' = [a_key EXCEPT ![analyzer] = key]
    /\ a_state' = [a_state EXCEPT ![analyzer] = InitClient(analyzer, key)]
    /\ a_results' = [a_results EXCEPT ![analyzer] = 0]
    /\ UNCHANGED notCtorVars

\* one analyze call on a constructed object returns a result
Analyze(analyzer) ==
    /\ AcceptsCalls(a_state[analyzer])
    /\ a_results[analyzer] < MaxAnalyzeCalls
    /\ a_results' = [a_results EXCEPT ![analyzer] = @ + 1]
    /\ UNCHANGED <<a_key, a_state>>
    /\ UNCHANGED notCtorVars

CtorNext ==
    \/ \E analyzer \in Analyzers, key \in BOOLEAN : Construct(analyzer, key)
    \/ \E analyzer \in Analyzers : Analyze(analyzer)

-----------------------------------------------------------------------------
(***************************************************************************)
(* save_state called by the monitor thread and by the main thread (signal  *)
(* handler, stop) while the listener of a job thread counts an execution.  *)
(* Each file operation of save_state is one step.                          *)
(***************************************************************************)

\* the save_state calls begun
MaxSaveCalls == 3

\* the executions counted
MaxCounted == 2

\* _monitor_loop (line 405) and _signal_handler / stop (lines 251, 1561)
SaveThreads == {"monitor", "main"}

FileAbsent == [exists |-> FALSE, stats |-> NoStats]

FileWith(stats) == [exists |-> TRUE, stats |-> stats]

CsaveIdle ==
    /\ x_main = FileAbsent
    /\ x_backup = FileAbsent
    /\ x_tmp = FileAbsent
    /\ x_pc = [t \in SaveThreads |-> "idle"]
    /\ x_stats = NoStats
    /\ x_lock = "free"
    /\ x_calls = 0

CsaveFiles == <<x_main, x_backup, x_tmp>>

\* _job_executed_listener, lines 258-260: with self._lock: total_executions += 1
ListenerCountsTotal ==
    /\ x_lock = "free"
    /\ x_stats.total < MaxCounted
    /\ x_lock' = "job"
    /\ x_stats' = [x_stats EXCEPT !.total = @ + 1]
    /\ UNCHANGED <<CsaveFiles, x_pc, x_calls>>
    /\ UNCHANGED notCsaveVars

\* _job_executed_listener, lines 262-265: failed_executions or successful_executions
\* += 1, and the lock is released
ListenerCountsOutcome(failed) ==
    /\ x_lock = "job"
    /\ x_stats' = IF failed THEN [x_stats EXCEPT !.failed = @ + 1]
                  ELSE [x_stats EXCEPT !.successful = @ + 1]
    /\ x_lock' = "free"
    /\ UNCHANGED <<CsaveFiles, x_pc, x_calls>>
    /\ UNCHANGED notCsaveVars

\* the except branch of save_state, lines 316-324: the temporary file is removed
SaveFails(t) ==
    /\ x_tmp' = FileAbsent
    /\ x_pc' = [x_pc EXCEPT ![t] = "idle"]

\* save_state, lines 285-301: the state is built from self.stats and dumped into the
\* temporary file; self._lock is not taken
SaveWritesTmp(t) ==
    /\ x_pc[t] = "idle"
    /\ x_calls < MaxSaveCalls
    /\ x_calls' = x_calls + 1
    /\ x_tmp' = FileWith(x_stats)
    /\ x_pc' = [x_pc EXCEPT ![t] = "written"]
    /\ UNCHANGED <<x_main, x_backup, x_stats, x_lock>>
    /\ UNCHANGED notCsaveVars

\* save_state, lines 304-306: os.path.exists(state_file), os.path.exists(backup_file)
SaveChecksFiles(t) ==
    /\ x_pc[t] = "written"
    /\ x_pc' = [x_pc EXCEPT ![t] = IF ~x_main.exists THEN "rename_tmp"
                                   ELSE IF x_backup.exists THEN "remove_backup"
                                   ELSE "rename_main"]
    /\ UNCHANGED <<CsaveFiles, x_stats, x_lock, x_calls>>
    /\ UNCHANGED notCsaveVars

\* save_state, line 307: os.remove(backup_file); FileNotFoundError when the other
\* thread has removed or moved it
SaveRemovesBackup(t) ==
    /\ x_pc[t] = "remove_backup"
    /\ IF x_backup.exists
       THEN /\ x_backup' = FileAbsent
            /\ x_pc' = [x_pc EXCEPT ![t] = "rename_main"]
            /\ UNCHANGED x_tmp
       ELSE /\ SaveFails(t)
            /\ UNCHANGED x_backup
    /\ UNCHANGED <<x_main, x_stats, x_lock, x_calls>>
    /\ UNCHANGED notCsaveVars

\* save_state, line 308: os.rename(state_file, backup_file); FileNotFoundError when
\* the other thread has moved the state file
SaveRenamesMain(t) ==
    /\ x_pc[t] = "rename_main"
    /\ IF x_main.exists
       THEN /\ x_backup' = x_main
            /\ x_main' = FileAbsent
            /\ x_pc' = [x_pc EXCEPT ![t] = "rename_tmp"]
            /\ UNCHANGED x_tmp
       ELSE /\ SaveFails(t)
            /\ UNCHANGED <<x_main, x_backup>>
    /\ UNCHANGED <<x_stats, x_lock, x_calls>>
    /\ UNCHANGED notCsaveVars

\* save_state, line 310: os.rename(temp_file, state_file); FileNotFoundError when the
\* other thread has moved or removed the temporary file
SaveRenamesTmp(t) ==
    /\ x_pc[t] = "rename_tmp"
    /\ IF x_tmp.exists
       THEN /\ x_main' = x_tmp
            /\ x_tmp' = FileAbsent
            /\ x_pc' = [x_pc EXCEPT ![t] = "idle"]
       ELSE /\ SaveFails(t)
            /\ UNCHANGED x_main
    /\ UNCHANGED <<x_backup, x_stats, x_lock, x_calls>>
    /\ UNCHANGED notCsaveVars

CsaveNext ==
    \/ ListenerCountsTotal
    \/ \E failed \in BOOLEAN : ListenerCountsOutcome(failed)
    \/ \E t \in SaveThreads : SaveWritesTmp(t)
    \/ \E t \in SaveThreads : SaveChecksFiles(t)
    \/ \E t \in SaveThreads : SaveRemovesBackup(t)
    \/ \E t \in SaveThreads : SaveRenamesMain(t)
    \/ \E t \in SaveThreads : SaveRenamesTmp(t)

-----------------------------------------------------------------------------
(* start(), stop() and the monitor thread: src/src/scheduler.py, lines 374-412 and
   1448-1579.  start() and stop() are called by the main thread (main.py, restart())
   and, through check_error_recovery -> restart(), by the monitor thread itself. *)

MaxBootCalls == 5

\* the options start() is called with: its defaults, those of main.py, and
\* enable_monitoring = False
BootOptions == {DefaultOptions, MainOptions, [MainOptions EXCEPT !.monitoring = FALSE]}

\* where a call of start() fails: nowhere, in initialize_components (line 1479), or
\* in Thread.start() of start_monitoring (line 384, "can't start new thread")
BootFaults == {"none", "components", "monitor_thread"}

\* start(), lines 1484-1509: the order in which the jobs are added
JobOrder ==
    <<"morning_collection", "trading_hours_collection", "evening_collection",
      "daily_summary", "full_pipeline", "news_collection", "ai_analysis",
      "email_report", "ai_analysis_only", "maintenance">>

\* self.scheduler.add_job(..., id=...) on a running scheduler, one job after the
\* other with no replace_existing (lines 660-825): the job store raises
\* ConflictingIdError for an id it holds, and the jobs added before it stay.
RECURSIVE AddJobsFrom(_, _, _)
AddJobsFrom(k, wanted, registered) ==
    IF k > Len(JobOrder) THEN [jobs |-> registered, raised |-> FALSE]
    ELSE IF JobOrder[k] \notin wanted THEN AddJobsFrom(k + 1, wanted, registered)
    ELSE IF JobOrder[k] \in registered THEN [jobs |-> registered, raised |-> TRUE]
    ELSE AddJobsFrom(k + 1, wanted, registered \cup {JobOrder[k]})

\* TaskScheduler.__init__, lines 43-80: a stopped BackgroundScheduler, no monitor thread
BootIdle ==
    /\ t_running = FALSE
    /\ t_sched_up = FALSE
    /\ t_jobs = {}
    /\ t_ret = "none"
    /\ t_monitoring = FALSE
    /\ t_looping = 0
    /\ t_exiting = 0
    /\ t_calls = 0

\* start_monitoring, lines 374-386: no new thread while self.monitor_thread is alive
MonitorThreadAlive == t_looping + t_exiting > 0

\* start(), lines 1468-1540, on a scheduler that is stopped.  initialize_components
\* failing returns False before anything is changed.  Otherwise the jobs are added,
\* scheduler.start() runs, is_running = True (line 1512), and start_monitoring
\* creates the monitor thread unless one is alive; Thread.start() raising lands in
\* the except branch (1535-1540), which returns False and undoes nothing.
StartStopped(opts, fault) ==
    /\ ~t_sched_up
    /\ t_calls < MaxBootCalls
    /\ t_calls' = t_calls + 1
    /\ IF fault = "components"
          THEN /\ t_ret' = "false"
               /\ UNCHANGED <<t_running, t_sched_up, t_jobs, t_monitoring, t_looping>>
          ELSE /\ t_jobs' = JobsFor(opts)
               /\ t_sched_up' = TRUE
               /\ t_running' = TRUE
               /\ t_monitoring' = opts.monitoring
               /\ IF opts.monitoring /\ ~MonitorThreadAlive
                     THEN IF fault = "monitor_thread"
                             THEN t_ret' = "false" /\ t_looping' = t_looping
                             ELSE t_ret' = "true" /\ t_looping' = t_looping + 1
                     ELSE t_ret' = "true" /\ t_looping' = t_looping
    /\ UNCHANGED t_exiting
    /\ UNCHANGED notBootVars

\* start(), lines 1468-1540, on a scheduler that is running already (a second
\* start() with no stop() between): the first add_job of an id that is registered
\* raises ConflictingIdError; with no such id, scheduler.start() (line 1511) raises
\* SchedulerAlreadyRunningError.  Either way the except branch returns False.
StartRunning(opts, fault) ==
    /\ t_sched_up
    /\ t_calls < MaxBootCalls
    /\ t_calls' = t_calls + 1
    /\ t_ret' = "false"
    /\ t_jobs' = IF fault = "components" THEN t_jobs
                 ELSE AddJobsFrom(1, JobsFor(opts), t_jobs).jobs
    /\ UNCHANGED <<t_running, t_sched_up, t_monitoring, t_looping, t_exiting>>
    /\ UNCHANGED notBootVars

\* stop(), lines 1542-1570: is_running = False; stop_monitoring only logs (388-392);
\* scheduler.shutdown(wait=True) if it runs, which empties the job store.
StopCall ==
    /\ t_calls < MaxBootCalls
    /\ t_calls' = t_calls + 1
    /\ t_running' = FALSE
    /\ t_sched_up' = FALSE
    /\ t_jobs' = IF t_sched_up THEN {} ELSE t_jobs
    /\ t_ret' = "none"
    /\ UNCHANGED <<t_monitoring, t_looping, t_exiting>>
    /\ UNCHANGED notBootVars

\* _monitor_loop, line 396: the monitor thread evaluates `while self.is_running`
\* after its sleep; it goes round again, or leaves the loop.
MonitorLoopChecks ==
    /\ t_looping > 0
    /\ IF t_running
          THEN UNCHANGED <<t_looping, t_exiting>>
          ELSE t_looping' = t_looping - 1 /\ t_exiting' = t_exiting + 1
    /\ t_running' = t_running
    /\ UNCHANGED <<t_sched_up, t_jobs, t_ret, t_monitoring, t_calls>>
    /\ UNCHANGED notBootVars

\* _monitor_loop has returned: the thread ends, is_alive() turns False.
MonitorThreadEnds ==
    /\ t_exiting > 0
    /\ t_exiting' = t_exiting - 1
    /\ UNCHANGED <<t_running, t_sched_up, t_jobs, t_ret, t_monitoring, t_looping, t_calls>>
    /\ UNCHANGED notBootVars

\* check_error_recovery -> restart(), lines 484 and 1572-1579, run by the monitor
\* thread inside its loop: stop(), sleep(2), start() with the defaults.
\* start_monitoring finds the calling thread alive and creates no thread.
MonitorRestarts(ok) ==
    /\ t_looping > 0
    /\ t_running
    /\ t_calls < MaxBootCalls
    /\ t_calls' = t_calls + 1
    /\ IF ok
          THEN /\ t_jobs' = JobsFor(DefaultOptions)
               /\ t_sched_up' = TRUE
               /\ t_running' = TRUE
               /\ t_monitoring' = DefaultOptions.monitoring
               /\ t_ret' = "true"
          ELSE /\ t_jobs' = {}
               /\ t_sched_up' = FALSE
               /\ t_running' = FALSE
               /\ t_ret' = "false"
               /\ UNCHANGED t_monitoring
    /\ UNCHANGED <<t_looping, t_exiting>>
    /\ UNCHANGED notBootVars

BootNext ==
    \/ \E opts \in BootOptions, fault \in BootFaults : StartStopped(opts, fault)
    \/ \E opts \in BootOptions, fault \in BootFaults : StartRunning(opts, fault)
    \/ StopCall
    \/ MonitorLoopChecks
    \/ MonitorThreadEnds
    \/ \E ok \in BOOLEAN : MonitorRestarts(ok)

-----------------------------------------------------------------------------
(* Two jobs of the enhanced strategy run collect_all_news at the same time, each on
   its own worker thread of the scheduler: news_collector.py, lines 75-131 and
   635-668; database.py, lines 260-322 and 524-551.  Every database call opens its
   own connection; no lock and no transaction spans the probe and the save. *)

MaxIngestRuns == 3

MaxIngestTime == 1

\* scheduler.py, lines 752 and 769: jobs whose function begins with collect_all_news
IngestJobs == {"morning_collection", "trading_hours_collection"}

\* the entries of the feed: distinct titles, one url each
IngestEntries == {[title |-> t, url |-> <<3>>] : t \in Titles}

\* the hash seed of the one process both jobs run in
IngestSeed == 1

\* _convert_to_news_item, news_collector.py lines 700-725: a NewsItem without id
IngestItem(entry, now) ==
    [id |-> NoId, title |-> entry.title, url |-> entry.url, source |-> "rss",
     created_at |-> now]

\* collect_all_news, lines 75-118: the items of the feed, then _deduplicate_news
\* (635-668): those for which check_news_exists(title, url) finds no row
IngestFiltered(feed, rows, now) ==
    {IngestItem(e, now) : e \in {f \in feed : ~StoredAlready(rows, f)}}

\* save_news_items_batch, lines 275-313, for items without id: each gets
\* source_hash_timestamp and is written with INSERT OR REPLACE
IngestSaved(rows, batch, now) ==
    LET new == {RowOf([i EXCEPT !.id = GenerateId(i, IngestSeed, now)], now) : i \in batch}
    IN  {r \in rows : \A n \in new : n.id # r.id} \cup new

IngestIdle ==
    /\ n_rows = {}
    /\ n_feed = {}
    /\ n_now = 0
    /\ n_pc = [j \in IngestJobs |-> "idle"]
    /\ n_batch = [j \in IngestJobs |-> {}]
    /\ n_runs = 0

\* the feed publishes an entry
IngestFeedPublishes(entry) ==
    /\ entry \notin n_feed
    /\ n_feed' = n_feed \cup {entry}
    /\ UNCHANGED <<n_rows, n_now, n_pc, n_batch, n_runs>>
    /\ UNCHANGED notIngestVars

\* collect_all_news up to line 118: the job fetches the feed and probes the table;
\* with nothing left (line 121) it is done.
IngestProbes(job) ==
    /\ n_pc[job] = "idle"
    /\ n_runs < MaxIngestRuns
    /\ n_runs' = n_runs + 1
    /\ LET filtered_news == IngestFiltered(n_feed, n_rows, n_now)
       IN  /\ n_batch' = [n_batch EXCEPT ![job] = filtered_news]
           /\ n_pc' = [n_pc EXCEPT ![job] = IF filtered_news = {} THEN "idle" ELSE "probed"]
    /\ UNCHANGED <<n_rows, n_feed, n_now>>
    /\ UNCHANGED notIngestVars

\* collect_all_news, lines 121-122: db_manager.save_news_items_batch(filtered_news)
IngestSaves(job) ==
    /\ n_pc[job] = "probed"
    /\ n_rows' = IngestSaved(n_rows, n_batch[job], n_now)
    /\ n_pc' = [n_pc EXCEPT ![job] = "idle"]
    /\ n_batch' = [n_batch EXCEPT ![job] = {}]
    /\ UNCHANGED <<n_feed, n_now, n_runs>>
    /\ UNCHANGED notIngestVars

\* a second of wall-clock time passes
IngestTick ==
    /\ n_now < MaxIngestTime
    /\ n_now' = n_now + 1
    /\ UNCHANGED <<n_rows, n_feed, n_pc, n_batch, n_runs>>
    /\ UNCHANGED notIngestVars

IngestNext ==
    \/ \E entry \in IngestEntries : IngestFeedPublishes(entry)
    \/ \E job \in IngestJobs : IngestProbes(job)
    \/ \E job \in IngestJobs : IngestSaves(job)
    \/ IngestTick

-----------------------------------------------------------------------------
(* Claims about the state file *)

\* C2: a read after a crash at any step of save_state returns the complete previous
\* generation or the complete new one, never a missing state while a generation had
\* been saved (the read falls back to the backup when the main file is absent).
C2_CrashSafeLoad ==
    save_pc = "loaded" =>
        /\ mem_gen \in {committed, writing}
        /\ committed # 0 => mem_gen # 0

-----------------------------------------------------------------------------
(* Claims about the Impact Analyzer batch *)

\* number of requests sent in the 60-second window that starts at time t
DispatchedIn(t) ==
    Cardinality({k \in DOMAIN r_dispatched :
                    t <= r_dispatched[k] /\ r_dispatched[k] < t + WindowSeconds})

\* C3: in every 60-second sliding window at most rate_limit_per_minute LLM requests
\* are dispatched, for every interleaving of the workers.
C3_WindowCap ==
    \A k \in DOMAIN r_dispatched : DispatchedIn(r_dispatched[k]) <= RateLimit

\* C4: acquiring a slot of the saturated rate limiter never blocks forever: no request
\* is ever stuck waiting for the limiter while the task that holds it cannot run.
C4_AcquireNeverBlocksForever ==
    \A i \in Tasks : r_pc[i] # "lock_blocked"

\* C5: the batch output has the length of the input and ys[i].news_id = xs[i].id for
\* every i, whatever the completion order and whichever requests fail.
C5_OutputMatchesInput ==
    r_phase = "returned" =>
        /\ Len(r_results) = Len(r_xs)
        /\ \A i \in 1..Len(r_xs) : r_results[i].news_id = r_xs[i].id

\* a three-item asynchronous batch returned after its requests completed out of input
\* order, one of them failing
C5_Witness ==
    /\ r_phase = "returned"
    /\ Len(r_xs) = 3
    /\ Len(r_done_order) = 3
    /\ r_done_order # <<1, 2, 3>>
    /\ r_xs[1].id # r_xs[2].id
    /\ \E i \in 1..3 : Failed(r_outcome[i])

\* C6: a failed request does not cancel the batch: when the asynchronous batch returns,
\* every request has ended, each failed position holds the placeholder (impact_score 0,
\* the error summary) and each answered position holds its own parsed result.
C6_FailureIsolated ==
    (r_phase = "returned" /\ r_batch_idx > 0) =>
        \A i \in 1..Len(r_xs) :
            /\ r_outcome[i].kind # "none"
            /\ Failed(r_outcome[i]) =>
                  r_results[i] = [news_id |-> r_xs[i].id, impact_score |-> 0,
                                  summary |-> "analysis_error"]
            /\ r_outcome[i].kind = "reply" =>
                  /\ r_results[i].summary = "llm"
                  /\ r_results[i].impact_score = ClampScore(r_outcome[i].score)

\* a batch returned in which one request failed (exception or timeout) and a request
\* sent after it was answered
C6_Witness ==
    /\ r_phase = "returned"
    /\ r_batch_idx > 0
    /\ \E i, j \in 1..Len(r_xs) :
          /\ i < j
          /\ r_outcome[i].kind = "failed"
          /\ r_outcome[j].kind = "reply"

-----------------------------------------------------------------------------
-----------------------------------------------------------------------------
(* Claims about the scheduler *)

\* invocations of job j running now, however they were started
Invocations(j) ==
    (IF j \in s_inst THEN 1 ELSE 0) + (IF j \in s_direct THEN 1 ELSE 0)

\* C1: for every job_id, at no instant do two invocations of that job execute
\* concurrently, whether they were started by a scheduled fire or by run_job_once.
C1_NoConcurrentSameJob == \A j \in JobIds : Invocations(j) <= max_instances

\* the automatic restarts of the hour that ends at time t
RestartsInHourTo(t) ==
    Cardinality({k \in DOMAIN s_restarts :
                    t - HourSeconds < s_restarts[k] /\ s_restarts[k] <= t})

\* C7: auto-recovery restarts only while fewer than 3 restarts lie within the last
\* hour, so that at most 3 automatic restarts happen in any one-hour window,
\* whatever other events are recorded between them.
C7_AtMostThreeRestartsPerHour ==
    \A k \in DOMAIN s_restarts : RestartsInHourTo(s_restarts[k]) <= MaxRecentRestarts

\* C8: once an auto_recovery_disabled event has been recorded, no further automatic
\* restart is performed.
C8_NoRestartAfterDisabled ==
    [][s_disabled => s_restarts' = s_restarts]_vars

\* C9: an automatic restart starts the scheduler with the options of the original
\* start: the jobs registered after the restart are the jobs registered before it.
C9_RestartKeepsJobs ==
    (s_restarts # <<>> /\ s_mon # "stopping" /\ s_running) => s_jobs = s_jobs_before

-----------------------------------------------------------------------------
(* Claims about the execution history *)

HistQuiescent == \A t \in HistThreads : h_pc[t] = "idle"

\* C10: execution_history holds at most 100 entries, also while events are recorded
\* from several threads; the oldest entries are discarded first, so that between any
\* two calls of record_event the history is the most recent events in order.
C10_HistoryIsMostRecent ==
    HistQuiescent =>
        /\ Len(h_history) = Min(h_count, max_history_size)
        /\ \A k \in DOMAIN h_history :
              h_history[k].seq = h_count - Len(h_history) + k

-----------------------------------------------------------------------------
(* Claims about the news store *)

\* C11: for every pair of stored items with equal (title, url) at most one row
\* exists, after any sequence of save_news_items_batch calls.
C11_OneRowPerTitleUrl ==
    \A r1, r2 \in d_rows : (r1.title = r2.title /\ r1.url = r2.url) => r1 = r2

\* C12: saving a batch whose items are all stored already reports 0 items saved and
\* leaves the stored rows unchanged.
C12_SecondInsertNoOp ==
    (d_last.called /\ d_last.stored_before) =>
        /\ d_last.count = 0
        /\ d_rows = d_last.rows_before

-----------------------------------------------------------------------------
(* Claims about the state restored by start() *)

\* C13 as stated: on a start that finds a state file, error_count, health_status,
\* the counters and execution_history are what they were at the last save_state
\* (start then records its scheduler_started event).
C13_RestoredAsWritten ==
    [][(~s_started /\ s_started' /\ s_file.exists) =>
          /\ s_error_count' = s_written.error_count
          /\ s_health' = s_written.health
          /\ s_stats' = s_written.stats
          /\ s_history' = RecordEvent(s_written.history, "scheduler_started", s_now)]_vars

\* C13, amended: on a start that finds a state file, error_count, health_status and
\* the counters are what they were at the last save_state, and execution_history is
\* the last 50 entries it had then; after a kill that follows 100 successful and 60
\* failed executions the health check of the new process finds "warning" and begins
\* no restart.
C13_RestoredLastSaved ==
    [][/\ (~s_started /\ s_started' /\ s_file.exists) =>
             /\ s_error_count' = s_written.error_count
             /\ s_health' = s_written.health
             /\ s_stats' = s_written.stats
             /\ s_history' = RecordEvent(LastN(s_written.history, SavedHistorySize),
                                         "scheduler_started", s_now)
       /\ (/\ s_kills > 0
           /\ s_running
           /\ s_mon = "ready"
           /\ s_mon' # "ready"
           /\ s_kills' = s_kills
           /\ s_stats = [total |-> 160, successful |-> 100, failed |-> 60]) =>
             /\ s_health' = "warning"
             /\ s_mon' = "sleeping"
             /\ s_restarts' = s_restarts]_vars

\* the new process has started from the file left by 160 executions (50 events, then
\* scheduler_started) and its first health check has found "warning"
C13_Witness ==
    /\ s_kills = 1
    /\ s_started
    /\ s_running
    /\ s_stats = [total |-> 160, successful |-> 100, failed |-> 60]
    /\ Len(s_history) = SavedHistorySize + 2
    /\ s_history[SavedHistorySize + 1].type = "scheduler_started"
    /\ s_history[SavedHistorySize + 2].type = "health_check"
    /\ s_health = "warning"
    /\ s_mon = "sleeping"
    /\ s_restarts = <<>>

-----------------------------------------------------------------------------
(* Claims about the concurrency of the batch path *)

\* the tasks whose LLM request has been sent and has not ended
InFlight == {i \in Tasks : r_pc[i] = "in_flight"}

\* C17: at any instant at most max_concurrent LLM requests of the batch path are in
\* flight.
C17_AtMostMaxConcurrentInFlight == Cardinality(InFlight) <= MaxConcurrent

\* max_concurrent requests are in flight and a further task of the sub-batch is kept
\* waiting by the semaphore alone
C17_Witness ==
    /\ Cardinality(InFlight) = MaxConcurrent
    /\ r_sem = 0
    /\ r_lock = 0
    /\ \E i \in Tasks : r_pc[i] = "sem_wait"

-----------------------------------------------------------------------------
(* Claims about the collection cycles                                      *)

\* 08:00 and 16:00, the window named at line 1056
TradingOpen == 480

TradingClose == 960

InsideTradingHours(t) == TradingOpen <= t /\ t <= TradingClose

LastOutcome == IF c_log = <<>> THEN "none" ELSE c_log[Len(c_log)]

\* the ids of the items of the last tick that score at least min_score
IdsAtLeast(min_score) == {k \in DOMAIN c_last.scores : c_last.scores[k] >= min_score}

\* C18: a tick of trading_hours_collection between 08:00 and 16:00 runs the cycle and
\* completes normally; a tick outside the window collects nothing and sends nothing.
C18_TickRunsCycleInsideWindowOnly ==
    c_last.job = "trading_hours_collection" =>
        IF InsideTradingHours(c_last.time)
        THEN c_last.cycle /\ LastOutcome = "job_executed"
        ELSE ~c_last.cycle /\ c_db = {} /\ c_emails = <<>>

\* C19: an intraday tick at 10:30 whose collector returns items that all score below
\* 70 leaves the items saved, sends no email, and is recorded as a success.
C19_QuietIntradayTickPersists ==
    (/\ c_last.job = "trading_hours_collection"
     /\ c_last.time = 630
     /\ c_last.ok
     /\ c_last.scores # <<>>
     /\ IdsAtLeast(IntradayMinScore) = {}) =>
        /\ c_db = DOMAIN c_last.scores
        /\ c_emails = <<>>
        /\ LastOutcome = "job_executed"

\* the ids of the items in the email of the last tick
EmailIds == {c_emails[1][k] : k \in DOMAIN c_emails[1]}

MorningEmailSent == c_last.job = "morning_collection" /\ c_emails # <<>>

-----------------------------------------------------------------------------
(* Claims about the pipeline jobs                                          *)

C23_MaintenanceDeletesOldNews ==
    [][(p_last'.job = "maintenance" /\ p_now' = p_now /\ p_mode' = p_mode
           /\ p_feed' = p_feed) =>
          \A r \in p_rows' : r.time >= p_now' - RetentionDays]_vars

-----------------------------------------------------------------------------
(* Claims about the Deep Analyzer                                          *)

Analyzed == g_result.model_used # "none"

\* the queries of the searches among the calls of the last analysis, in order
RECURSIVE QueriesSent(_)
QueriesSent(calls) ==
    IF calls = <<>> THEN <<>>
    ELSE IF Head(calls).kind = "search"
         THEN <<Head(calls).query>> \o QueriesSent(Tail(calls))
         ELSE QueriesSent(Tail(calls))

ResultsFor(i) == {k \in DOMAIN g_returned.results : g_returned.results[k].news_id = i}

Completed == Analyzed /\ g_result.model_used \notin {"skip", "error"}

\* C31: for every completed deep analysis adjusted_score lies between original_score,
\* which is the item's score, and 100: the adjustment never lowers the score and the
\* result is cut to [0,100].
C31_AdjustedScoreBetweenOriginalAnd100 ==
    Completed =>
        /\ g_result.original_score = g_item
        /\ g_result.original_score <= g_result.adjusted_score
        /\ g_result.adjusted_score <= ScoreCeiling
        /\ g_result.adjusted_score >= ScoreFloor

\* an item of 85 whose bonus reaches beyond 100
C31_Witness ==
    /\ Completed
    /\ g_result.original_score = 85
    /\ g_result.adjusted_score = ScoreCeiling

\* the searches among the calls of the last analysis, in order
SearchesMade == SelectSeq(g_calls, LAMBDA c : c.kind = "search")

\* the successful ones among the first n searches
SuccessesBefore(searches, n) ==
    Cardinality({k \in 1..n : searches[k].success})

\* C40: the searches of an analysis are the planned queries in planned order, one
\* after the other, no search is made once evidence_threshold searches have
\* succeeded, and the loop stops for no other reason before the plan is exhausted; so
\* there are never more searches than planned queries, which are at most
\* max_search_rounds.
C40_SearchesFollowPlanAndStopEarly ==
    (Analyzed /\ g_result.model_used # "skip") =>
        LET planned == g_calls[1].planned
            searches == SearchesMade
        IN  /\ Len(searches) <= Len(planned)
            /\ Len(planned) <= max_search_rounds
            /\ \A k \in DOMAIN searches :
                   /\ searches[k].query = planned[k]
                   /\ SuccessesBefore(searches, k - 1) < evidence_threshold
            /\ Len(searches) < Len(planned)
                   => SuccessesBefore(searches, Len(searches)) = evidence_threshold

\* three queries planned, the first two searches succeed, the third is not made
C40_Witness ==
    /\ Analyzed
    /\ g_result.model_used # "skip"
    /\ Len(g_calls[1].planned) = max_search_rounds
    /\ Len(SearchesMade) = evidence_threshold
    /\ \A k \in DOMAIN SearchesMade : SearchesMade[k].success

\* C30: search_keywords of the result is the list of the queries sent to the search
\* tool during the analysis, in the order they were sent.
C30_KeywordsAreQueriesSent ==
    (Analyzed /\ g_result.model_used \notin {"skip", "error"}) =>
        g_result.search_keywords = QueriesSent(g_calls)

-----------------------------------------------------------------------------
(* Claims about the requests of the Impact Analyzer                        *)

MainFailed ==
    LET main == RequestsTo("main")
    IN  main # <<>> /\ ~Is2xx(main[Len(main)].status)

\* C26: when analyze_news has ended, at most 3 requests went to the main model, a
\* request answered with a status that is not 2xx was sent again until 3 were made,
\* and exactly one request went to the fallback model if the last main request failed
\* and a fallback model is configured, none otherwise.
C26_RetryThenOneFallback ==
    l_pc = "done" =>
        LET main == RequestsTo("main")
        IN  /\ Len(main) <= 3
            /\ MainFailed => Len(main) = 3
            /\ Len(RequestsTo("fallback")) = IF MainFailed /\ l_configured THEN 1 ELSE 0

-----------------------------------------------------------------------------
(* Claims about the ranges of the persisted scores                         *)

InScoreRange(value) == ScoreFloor <= value /\ value <= ScoreCeiling

\* C27: every persisted importance_score and impact_score lies in [0,100], whichever
\* path wrote it: a value outside the range is clamped before it is stored.
C27_PersistedScoresInRange ==
    /\ \A value \in w_importance \cup w_impact : InScoreRange(value)
    /\ w_last.path # "none" =>
           w_last.stored = Clamp(ScoreFloor, ScoreCeiling, w_last.given)

-----------------------------------------------------------------------------
(* Claims about the health check                                           *)

\* a health check has been made: k_health is what it stored
HealthChecked == k_checks > 0

\* failure_rate > n / d, for a rate kept as a fraction
RateAbove(rate, n, d) == rate.num * d > n * rate.den

\* failure_rate = n / d
RateIs(rate, n, d) == rate.num * d = n * rate.den

\* C28: a health check stores failure_rate = failed / total of the counters and an
\* overall status that is critical if the rate is above 0.5, else warning if it is
\* above 0.2, else healthy if every component flag is true, else degraded; a rate of
\* exactly 0.5 is not critical and a rate of exactly 0.2 is not warning.
C28_HealthClassification ==
    HealthChecked =>
        LET rate == k_health.failure_rate
            overall == k_health.overall
            counted == k_health.stats
            flags == k_health.components
        IN  /\ counted.total > 0 => RateIs(rate, counted.failed, counted.total)
            /\ RateAbove(rate, 1, 2) => overall = "critical"
            /\ (~RateAbove(rate, 1, 2) /\ RateAbove(rate, 1, 5)) => overall = "warning"
            /\ (~RateAbove(rate, 1, 5) /\ AllComponents(flags))
                   => overall = "healthy"
            /\ (~RateAbove(rate, 1, 5) /\ ~AllComponents(flags))
                   => overall = "degraded"
            /\ RateIs(rate, 1, 2) => overall # "critical"
            /\ RateIs(rate, 1, 5) => overall # "warning"

\* a check made with half of the executions failed
C28_Witness ==
    /\ HealthChecked
    /\ k_health.stats.total > 0
    /\ RateIs(k_health.failure_rate, 1, 2)
    /\ k_health.overall = "warning"

-----------------------------------------------------------------------------
(* Claims about the deletion of old news                                   *)

-----------------------------------------------------------------------------
(* Claims about repeated collection                                        *)

-----------------------------------------------------------------------------
(* Claims about construction without an API key                            *)

\* C33: an analyzer constructed without an API key fails at construction: it is never
\* an object that accepts calls, and it returns no result.
C33_NoKeyFailsAtConstruction ==
    \A a \in Analyzers :
        (a_state[a] # "none" /\ ~a_key[a]) =>
            /\ a_state[a] = "raised"
            /\ ~AcceptsCalls(a_state[a])
            /\ a_results[a] = 0

-----------------------------------------------------------------------------
(* Claims about the lock around the scheduler state                        *)

\* the threads inside the file operations of save_state
InSaveState == {t \in SaveThreads : x_pc[t] # "idle"}

\* the counters in a file add up
Consistent(file) ==
    file.exists => file.stats.total = file.stats.successful + file.stats.failed

\* C34: the counters are updated under the lock, and save_state snapshots and writes
\* under the same lock: two save_state calls are never inside their file operations
\* at the same time, none is while the listener holds the lock, and the counters in
\* the state file never show a half-applied update.
C34_StateWriteUnderLock ==
    /\ Cardinality(InSaveState) <= 1
    /\ x_lock = "job" => InSaveState = {}
    /\ Consistent(x_main)

\* C38: the counters a state save reads add up, total_executions =
\* successful_executions + failed_executions, also while job completions are being
\* counted; so do the counters of every file a restart can restore them from.
C38_ObservedCountersAddUp ==
    /\ Consistent(x_tmp)
    /\ Consistent(x_main)
    /\ Consistent(x_backup)

-----------------------------------------------------------------------------
(* Claims about the persistence of recorded events                         *)

\* C35: the state is written to disk on every recorded event: once record_event has
\* returned, the state file exists and the event recorded last is in its history.
C35_RecordedEventIsOnDisk ==
    (Alive /\ s_history # <<>>) =>
        /\ s_file.exists
        /\ \E k \in DOMAIN s_file.history :
               s_file.history[k] = s_history[Len(s_history)]

-----------------------------------------------------------------------------
(* Claims about start(), stop() and the monitor thread *)

\* C37: whenever the scheduler runs with monitoring enabled, exactly one monitor loop
\* is active: a start() that succeeds after a stop() (restart() included, also from
\* the monitor thread) leaves one live loop, and there is never a second one.
C37_OneMonitorLoopWhileRunning ==
    /\ t_looping <= 1
    /\ (t_running /\ t_monitoring /\ t_ret = "true") => t_looping = 1

\* C39: start() returns True if and only if the scheduler is running afterwards: when
\* it has returned False, is_running is false and the underlying scheduler is not
\* left started with jobs registered.
C39_StartReturnsTrueIffRunning ==
    /\ t_ret = "true" => t_running
    /\ t_ret = "false" => (~t_running /\ ~(t_sched_up /\ t_jobs # {}))

-----------------------------------------------------------------------------
(* Claims about two jobs collecting at the same time *)

-----------------------------------------------------------------------------
(* Claims about failing jobs, signals and the life cycle of the scheduler *)

\* C14: when the body of a scheduled job raises, exactly one job_failed event is
\* recorded and failed_executions grows by 1; the job stays scheduled (while the
\* scheduler runs, every job that has failed is still among its jobs).
C14_FailedJobStaysScheduled ==
    [][/\ (/\ s_inst' # s_inst
           /\ s_inst' \subseteq s_inst
           /\ s_kills' = s_kills
           /\ s_stats'.successful = s_stats.successful) =>
             /\ s_stats'.failed = s_stats.failed + 1
             /\ s_history' = RecordEvent(s_history, "job_failed", s_now)
       /\ s_running' => s_failed' \subseteq s_jobs']_vars

\* C15: after SIGINT or SIGTERM the handler sets is_running = false, records
\* signal_received, persists, shuts down and exits; hence the state on disk at exit
\* has is_running = false and contains a signal_received event.
C15_ExitStateAfterSignal ==
    (s_sig = "exited" /\ s_signal) =>
        /\ ~s_file.is_running
        /\ \E k \in DOMAIN s_file.history : s_file.history[k].type = "signal_received"

\* stop() has been called by the main thread and has returned
StopReturned == (s_sig = "finally" /\ s_signal) \/ s_sig = "done"

\* C16: running is the only state that services jobs: no job invocation begins
\* before the scheduler is running or after stop() has returned.
C16_NoJobOutsideRunning ==
    [][(\E j \in JobIds : j \in s_inst' \ s_inst) => (s_started /\ ~StopReturned)]_vars

InitSave == SaveIdle /\ RateIdle /\ SchedIdle /\ HistIdle /\ StoreIdle /\ CycleIdle /\ PipeIdle /\ DeepIdle /\ LlmIdle /\ WriteIdle /\ HealthIdle /\ CtorIdle /\ CsaveIdle /\ BootIdle /\ IngestIdle

SpecSave == InitSave /\ [][SaveNext]_vars

InitRate == RateInit /\ r_max_calls = RateLimit /\ SaveIdle /\ SchedIdle /\ HistIdle /\ StoreIdle /\ CycleIdle /\ PipeIdle /\ DeepIdle /\ LlmIdle /\ WriteIdle /\ HealthIdle /\ CtorIdle /\ CsaveIdle /\ BootIdle /\ IngestIdle

SpecRate == InitRate /\ [][RateNext]_vars

\* a rate limit that is not below the number of concurrent requests (as in the
\* default BatchAnalysisConfig: 100 per minute, 10 concurrent)
InitSem == RateInit /\ r_max_calls = MaxConcurrent /\ SaveIdle /\ SchedIdle /\ HistIdle /\ StoreIdle /\ CycleIdle /\ PipeIdle /\ DeepIdle /\ LlmIdle /\ WriteIdle /\ HealthIdle /\ CtorIdle /\ CsaveIdle /\ BootIdle /\ IngestIdle

SpecSem == InitSem /\ [][RateNext]_vars

InitRestore == AfterLongRun /\ SaveIdle /\ RateIdle /\ HistIdle /\ StoreIdle /\ CycleIdle /\ PipeIdle /\ DeepIdle /\ LlmIdle /\ WriteIdle /\ HealthIdle /\ CtorIdle /\ CsaveIdle /\ BootIdle /\ IngestIdle

SpecRestore == InitRestore /\ [][SchedNext]_vars

InitSignal == SchedIdle /\ SaveIdle /\ RateIdle /\ HistIdle /\ StoreIdle /\ CycleIdle /\ PipeIdle /\ DeepIdle /\ LlmIdle /\ WriteIdle /\ HealthIdle /\ CtorIdle /\ CsaveIdle /\ BootIdle /\ IngestIdle

SpecSignal == InitSignal /\ [][SignalNext]_vars

InitSched == SchedIdle /\ SaveIdle /\ RateIdle /\ HistIdle /\ StoreIdle /\ CycleIdle /\ PipeIdle /\ DeepIdle /\ LlmIdle /\ WriteIdle /\ HealthIdle /\ CtorIdle /\ CsaveIdle /\ BootIdle /\ IngestIdle

SpecSched == InitSched /\ [][SchedNext]_vars

InitHist == HistInit /\ SaveIdle /\ RateIdle /\ SchedIdle /\ StoreIdle /\ CycleIdle /\ PipeIdle /\ DeepIdle /\ LlmIdle /\ WriteIdle /\ HealthIdle /\ CtorIdle /\ CsaveIdle /\ BootIdle /\ IngestIdle

SpecHist == InitHist /\ [][HistNext]_vars
InitStore == StoreIdle /\ SaveIdle /\ RateIdle /\ SchedIdle /\ HistIdle /\ CycleIdle /\ PipeIdle /\ DeepIdle /\ LlmIdle /\ WriteIdle /\ HealthIdle /\ CtorIdle /\ CsaveIdle /\ BootIdle /\ IngestIdle

SpecStore == InitStore /\ [][StoreNext]_vars
InitMorning == CycleIdle /\ SaveIdle /\ RateIdle /\ SchedIdle /\ HistIdle /\ StoreIdle /\ PipeIdle /\ DeepIdle /\ LlmIdle /\ WriteIdle /\ HealthIdle /\ CtorIdle /\ CsaveIdle /\ BootIdle /\ IngestIdle

SpecMorning == InitMorning /\ [][MorningNext]_vars

InitIntraday == CycleIdle /\ SaveIdle /\ RateIdle /\ SchedIdle /\ HistIdle /\ StoreIdle /\ PipeIdle /\ DeepIdle /\ LlmIdle /\ WriteIdle /\ HealthIdle /\ CtorIdle /\ CsaveIdle /\ BootIdle /\ IngestIdle

SpecIntraday == InitIntraday /\ [][IntradayNext]_vars
InitPipe == PipeIdle /\ SaveIdle /\ RateIdle /\ SchedIdle /\ HistIdle /\ StoreIdle /\ CycleIdle /\ DeepIdle /\ LlmIdle /\ WriteIdle /\ HealthIdle /\ CtorIdle /\ CsaveIdle /\ BootIdle /\ IngestIdle

SpecPipe == InitPipe /\ [][PipeNext]_vars
InitDeep == DeepIdle /\ SaveIdle /\ RateIdle /\ SchedIdle /\ HistIdle /\ StoreIdle /\ CycleIdle /\ PipeIdle /\ LlmIdle /\ WriteIdle /\ HealthIdle /\ CtorIdle /\ CsaveIdle /\ BootIdle /\ IngestIdle

SpecDeep == InitDeep /\ [][DeepNext]_vars
InitDeepBatch == DeepIdle /\ SaveIdle /\ RateIdle /\ SchedIdle /\ HistIdle /\ StoreIdle /\ CycleIdle /\ PipeIdle /\ LlmIdle /\ WriteIdle /\ HealthIdle /\ CtorIdle /\ CsaveIdle /\ BootIdle /\ IngestIdle

SpecDeepBatch == InitDeepBatch /\ [][DeepBatchNext]_vars
InitLlm == LlmInit /\ SaveIdle /\ RateIdle /\ SchedIdle /\ HistIdle /\ StoreIdle /\ CycleIdle /\ PipeIdle /\ DeepIdle /\ WriteIdle /\ HealthIdle /\ CtorIdle /\ CsaveIdle /\ BootIdle /\ IngestIdle

SpecLlm == InitLlm /\ [][LlmNext]_vars
InitWrite == WriteIdle /\ SaveIdle /\ RateIdle /\ SchedIdle /\ HistIdle /\ StoreIdle /\ CycleIdle /\ PipeIdle /\ DeepIdle /\ LlmIdle /\ HealthIdle /\ CtorIdle /\ CsaveIdle /\ BootIdle /\ IngestIdle

SpecWrite == InitWrite /\ [][WriteNext]_vars
InitHealth == HealthInit /\ SaveIdle /\ RateIdle /\ SchedIdle /\ HistIdle /\ StoreIdle /\ CycleIdle /\ PipeIdle /\ DeepIdle /\ LlmIdle /\ WriteIdle /\ CtorIdle /\ CsaveIdle /\ BootIdle /\ IngestIdle

SpecHealth == InitHealth /\ [][HealthNext]_vars
SpecRetention == InitPipe /\ [][RetentionNext]_vars

InitCtor == CtorIdle /\ SaveIdle /\ RateIdle /\ SchedIdle /\ HistIdle /\ StoreIdle /\ CycleIdle /\ PipeIdle /\ DeepIdle /\ LlmIdle /\ WriteIdle /\ HealthIdle /\ CsaveIdle /\ BootIdle /\ IngestIdle

SpecCtor == InitCtor /\ [][CtorNext]_vars

InitCsave == CsaveIdle /\ SaveIdle /\ RateIdle /\ SchedIdle /\ HistIdle /\ StoreIdle /\ CycleIdle /\ PipeIdle /\ DeepIdle /\ LlmIdle /\ WriteIdle /\ HealthIdle /\ CtorIdle /\ BootIdle /\ IngestIdle

SpecCsave == InitCsave /\ [][CsaveNext]_vars
InitBoot == BootIdle /\ SaveIdle /\ RateIdle /\ SchedIdle /\ HistIdle /\ StoreIdle /\ CycleIdle /\ PipeIdle /\ DeepIdle /\ LlmIdle /\ WriteIdle /\ HealthIdle /\ CtorIdle /\ CsaveIdle /\ IngestIdle

SpecBoot == InitBoot /\ [][BootNext]_vars

InitIngest == IngestIdle /\ SaveIdle /\ RateIdle /\ SchedIdle /\ HistIdle /\ StoreIdle /\ CycleIdle /\ PipeIdle /\ DeepIdle /\ LlmIdle /\ WriteIdle /\ HealthIdle /\ CtorIdle /\ CsaveIdle /\ BootIdle

SpecIngest == InitIngest /\ [][IngestNext]_vars
====
